---- MODULE Spec2Model ----
(***************************************************************************)
(* Model of the chat moderation plugin (chat_moderation_plugin.py) and of  *)
(* its API wrapper (moderation_api.py).                                    *)
(*                                                                         *)
(* A message is a sequence of one-character strings.  Both clocks of the   *)
(* program (datetime.now() and time.time()) are the variable now, in       *)
(* seconds; one call runs at one instant.  A call runs as one step, except *)
(* in the specifications of concurrent callers, where the threads of the   *)
(* callers take the steps of their calls in any order.                     *)
(***************************************************************************)
EXTENDS Integers, Sequences, FiniteSets, TLC

VARIABLES
    users,              \* ChatModerationPlugin.users: user_id -> UserStatus
    violations,         \* ChatModerationPlugin.violations: list of UserViolation
    config,             \* ChatModerationPlugin.config
    profanity_words,    \* ChatModerationPlugin.profanity_words
    profanity_patterns, \* ChatModerationPlugin.profanity_patterns
    now,                \* the wall clock, seconds
    last,               \* the last call: its arguments, return value and log lines
    calls               \* the calls in progress: thread -> position and locals

vars ==
    <<users, violations, config, profanity_words, profanity_patterns, now, last,
      calls>>

(***************************************************************************)
(* Bounds of the model.                                                    *)
(***************************************************************************)
MaxMessages == 3      \* messages accepted into the histories, all users together
MaxApiMessages == 1   \* the same, where manual actions are taken too
MaxRateMessages == 4  \* the same, where one user sends up to the rate limit
MaxStatusMessages == 2  \* the same, where the status and the statistics are read
MaxBurst == 12         \* distinct messages one user sends in a row
MaxCapsMessages == 2   \* messages accepted, where the caps rule is configured
MaxWordMessages == 2   \* messages accepted, where the word list is mutated
MaxWhitelistMessages == 2  \* messages accepted, where users are whitelisted
MaxGuardMessages == 4  \* messages accepted, with a rate limit of one
MaxSpamMessages == 2   \* messages accepted, where check_spam is called
MaxEscalationMessages == 4  \* messages accepted, where punishments escalate
MaxOverwriteMessages == 4  \* messages accepted, where mutes follow mutes
MaxExpiryMessages == 2  \* messages accepted, where punishments expire

(***************************************************************************)
(* Characters.                                                             *)
(***************************************************************************)
LowerLetters ==
    <<"a","b","c","d","e","f","g","h","i","j","k","l","m",
      "n","o","p","q","r","s","t","u","v","w","x","y","z">>

UpperLetters ==
    <<"A","B","C","D","E","F","G","H","I","J","K","L","M",
      "N","O","P","Q","R","S","T","U","V","W","X","Y","Z">>

DigitChars == {"0","1","2","3","4","5","6","7","8","9"}

\* str.isupper() of one character
isupper(c) == \E i \in DOMAIN UpperLetters : UpperLetters[i] = c

islower(c) == \E i \in DOMAIN LowerLetters : LowerLetters[i] = c

\* str.lower() of one character
lower(c) ==
    IF isupper(c)
    THEN LowerLetters[CHOOSE i \in DOMAIN UpperLetters : UpperLetters[i] = c]
    ELSE c

\* the regular expression class \w
IsWordChar(c) == isupper(c) \/ islower(c) \/ c \in DigitChars \/ c = "_"

\* str.split(): the maximal runs of non-whitespace characters, in order
RECURSIVE SplitFrom(_, _, _)
SplitFrom(s, i, cur) ==
    IF i > Len(s)
    THEN IF cur = <<>> THEN <<>> ELSE <<cur>>
    ELSE IF s[i] = " "
         THEN IF cur = <<>>
              THEN SplitFrom(s, i + 1, <<>>)
              ELSE <<cur>> \o SplitFrom(s, i + 1, <<>>)
         ELSE SplitFrom(s, i + 1, Append(cur, s[i]))

split(s) == SplitFrom(s, 1, <<>>)

Range(f) == {f[i] : i \in DOMAIN f}

(***************************************************************************)
(* Values of the program.                                                  *)
(***************************************************************************)
\* Optional[datetime] = None; every timestamp of the model is >= 0
None == -1

\* ModerationAction(action) accepts exactly these strings
ModerationAction == {"warn", "mute", "kick", "ban", "delete_message"}

\* datetime.now() + timedelta(seconds=duration) raises OverflowError beyond
\* datetime.max; the limit is scaled to the integers of the model checker
DatetimeMax == 2000000000

UserStatus(user_id) ==
    [user_id |-> user_id,
     is_muted |-> FALSE,
     is_banned |-> FALSE,
     mute_until |-> None,
     ban_until |-> None,
     violation_count |-> 0,
     last_message_time |-> 0,
     recent_messages |-> <<>>]

default_config ==
    [rules |->
        [profanity_filter |-> [enabled |-> TRUE, action |-> "warn",
                               threshold |-> 1, auto_escalate |-> TRUE],
         spam_detection |-> [enabled |-> TRUE, action |-> "mute", threshold |-> 3,
                             duration |-> 300, auto_escalate |-> FALSE],
         rate_limiting |-> [enabled |-> TRUE, max_messages_per_minute |-> 10,
                            action |-> "mute", duration |-> 60],
         caps_abuse |-> [enabled |-> TRUE, max_caps_percentage |-> 70,
                         min_message_length |-> 10, action |-> "warn"]],
     escalation |->
        [enabled |-> TRUE,
         warn_to_mute_threshold |-> 3,
         mute_to_kick_threshold |-> 2,
         kick_to_ban_threshold |-> 2]]

\* the configuration file of test_example_fixed.py: the defaults plus a whitelist
file_config ==
    [rules |->
        [profanity_filter |-> [enabled |-> TRUE, action |-> "warn", threshold |-> 1],
         spam_detection |-> [enabled |-> TRUE, action |-> "mute", threshold |-> 3,
                             duration |-> 300],
         rate_limiting |-> [enabled |-> TRUE, max_messages_per_minute |-> 10,
                            action |-> "mute", duration |-> 60],
         caps_abuse |-> [enabled |-> TRUE, max_caps_percentage |-> 70,
                         min_message_length |-> 10, action |-> "warn"]],
     escalation |->
        [enabled |-> TRUE,
         warn_to_mute_threshold |-> 3,
         mute_to_kick_threshold |-> 2,
         kick_to_ban_threshold |-> 2],
     whitelist |->
        [enabled |-> TRUE,
         moderator_roles |-> {"admin", "moderator"},
         bypass_users |-> <<>>]]

\* a configuration file whose whitelist section has no bypass_users key
file_config_no_bypass_users ==
    [file_config EXCEPT
        !.whitelist = [enabled |-> TRUE, moderator_roles |-> {"admin", "moderator"}]]

\* the configurations under which users are whitelisted
WhitelistConfigs == {default_config, file_config, file_config_no_bypass_users}

\* a configuration file that sets the rate limit to three messages per minute
rate_config ==
    [default_config EXCEPT !.rules.rate_limiting.max_messages_per_minute = 3]

\* a configuration file that sets the rate limit to one message per minute
guard_config ==
    [default_config EXCEPT !.rules.rate_limiting.max_messages_per_minute = 1]

\* a configuration file that turns the spam rule off
history_config ==
    [default_config EXCEPT !.rules.spam_detection.enabled = FALSE]

\* configuration files with the rate limit of three and one rule turned off
RuleNames == {"profanity_filter", "spam_detection", "rate_limiting", "caps_abuse"}

DetectorConfigs ==
    {rate_config} \cup
    { [rate_config EXCEPT !.rules[r].enabled = FALSE] : r \in RuleNames }

\* configuration files that set the rate limit
RateLimits == {3, 5, 10, 11}

\* configuration files for the rate-limit detector: limits below, at and
\* above three, and the rule turned off
LimiterConfigs ==
    { guard_config, rate_config,
      [default_config EXCEPT !.rules.rate_limiting.max_messages_per_minute = 5],
      [rate_config EXCEPT !.rules.rate_limiting.enabled = FALSE] }

\* configuration files for the escalation: the default thresholds, and a
\* ban after one kick
EscalationConfigs ==
    { default_config,
      [default_config EXCEPT !.escalation.kick_to_ban_threshold = 1] }

BurstConfigs ==
    { [default_config EXCEPT !.rules.rate_limiting.max_messages_per_minute = L] :
         L \in RateLimits }

\* configuration files that set the caps rule
CapsConfigs ==
    { default_config,
      [default_config EXCEPT !.rules.caps_abuse.max_caps_percentage = 55],
      [default_config EXCEPT !.rules.caps_abuse.enabled = FALSE] }

\* the basic word list of load_profanity_filter
basic_profanity_words ==
    { <<"d","a","m","n">>, <<"s","h","i","t">>, <<"f","u","c","k">>,
      <<"b","i","t","c","h">>, <<"a","s","s","h","o","l","e">>,
      <<"b","a","s","t","a","r","d">>, <<"c","r","a","p">>, <<"p","i","s","s">>,
      <<"h","e","l","l">>, <<"a","s","s">>, <<"s","l","u","t">>,
      <<"w","h","o","r","e">> }

(***************************************************************************)
(* Inputs.                                                                 *)
(***************************************************************************)
UserIds == {"u1", "u2"}

MsgHello == <<"h","i"," ","a","l","l">>
MsgDamn == <<"D","a","m","n">>
MsgLeet == <<"@","s","s">>
MsgDamnCaps == <<"D","@","M","N"," ","Y","O","U"," ","A","L","L">>
MsgCaps == <<"H","E","L","L","O"," ","W","O","R","L","D">>

Messages == {MsgHello, MsgDamn, MsgLeet, MsgDamnCaps, MsgCaps}

ApiMessages == {MsgHello, MsgDamn}

HistoryMessages == {MsgHello, MsgCaps}

\* a message that repeats one word
MsgRepeat == <<"g","o"," ","g","o"," ","g","o"," ","g","o"," ","g","o">>

\* capitals in a message shorter than min_message_length
MsgShortCaps == <<"H","E","Y"," ","Y","O","U">>

\* 7 capitals among 10 characters, 8 among 10, and 11 among 20
MsgCaps70 == <<"H","E","L","L","O"," ","Y","O","u","2">>
MsgCaps80 == <<"H","E","L","L","O"," ","Y","O","U","2">>
MsgCaps55 ==
    <<"A","B","C","D","E","F","G","H","I","J","K"," ",
      "a","b","c","d","e","f","g","h">>

CapsMessages == {MsgHello, MsgShortCaps, MsgCaps70, MsgCaps80, MsgCaps55, MsgCaps}

\* the k-th of a series of distinct clean messages
BurstMessage(k) == <<"m", LowerLetters[k]>>

BurstMessages == {BurstMessage(k) : k \in DOMAIN LowerLetters}

\* a word that is not in the basic list, and a message of it
WordBad == <<"b","a","d","w","o","r","d">>

\* a word of the basic list
WordDamn == <<"d", "a", "m", "n">>

\* the lists of words given to add_profanity_words / remove_profanity_words
WordLists == {{WordBad}, {WordDamn}}

MsgBad == <<"B","a","d","w","o","r","d">>

\* two equal tokens; seven tokens, two of them distinct; ten tokens, three
\* of them distinct; four tokens, two of them distinct
MsgTwoSame == <<"g","o"," ","g","o">>
MsgSevenTwo == <<"a"," ","b"," ","a"," ","b"," ","a"," ","b"," ","a">>
MsgTenThree ==
    <<"a"," ","b"," ","c"," ","a"," ","b"," ","c"," ","a"," ","b"," ","c"," ","a">>
MsgFourTwo == <<"a"," ","b"," ","a"," ","b">>

\* the messages given to check_spam
SpamMessages ==
    {MsgHello, MsgLeet, MsgTwoSame, MsgRepeat, MsgSevenTwo, MsgTenThree, MsgFourTwo}

\* every message of the model
AllMessages ==
    Messages \cup CapsMessages \cup BurstMessages \cup SpamMessages \cup {MsgBad}

\* the instants of the calls: the start, the expiry of a five-minute mute, the
\* end of the 24-hour window, and five minutes after it
Instants == {0, 300, 86400, 86700}

ApiInstants == {0, 300}

RoleSets == {{}, {"admin"}, {"member"}}

ActionStrings == ModerationAction \cup {"invalid_action"}

Durations == {300, DatetimeMax}

\* the durations of the rate-limit mute and of the spam mute
MuteDurations == {60, 300}

\* durations that end before, at and after the second instant of the clock,
\* and one whose expiry datetime cannot represent
ExpiryDurations == MuteDurations \cup {DatetimeMax}

Configs == {default_config, file_config}

\* the partial configurations given to update_config
ConfigUpdates ==
    { [escalation |-> [enabled |-> FALSE]],
      [rules |-> [profanity_filter |-> [enabled |-> FALSE]]] }

(***************************************************************************)
(* Profanity patterns: re.compile(rf'\b{pattern}\b', re.IGNORECASE).  A    *)
(* compiled pattern is the sequence of the character classes of the word.  *)
(***************************************************************************)
\* word.replace('a','[a@]').replace('e','[e3]').replace('i','[i1]').replace('o','[o0]')
CharClass(c) ==
    CASE c = "a" -> {"a", "@"}
      [] c = "e" -> {"e", "3"}
      [] c = "i" -> {"i", "1"}
      [] c = "o" -> {"o", "0"}
      [] OTHER -> {c}

compile_pattern(word) == [k \in 1..Len(word) |-> CharClass(word[k])]

\* load_profanity_filter: the word list is reset to the basic list and the
\* patterns are compiled from it
load_profanity_words == basic_profanity_words

load_profanity_patterns == {compile_pattern(w) : w \in load_profanity_words}

\* load_profanity_filter, called on a plugin whose word set is words: the
\* set is assigned the basic list again, whatever it held
load_profanity_filter(words) ==
    [profanity_words |-> load_profanity_words,
     profanity_patterns |-> load_profanity_patterns]

\* str.lower of a word
lower_word(word) == [k \in 1..Len(word) |-> lower(word[k])]

\* ModerationAPI.add_profanity_words: the lower-cased words are added to the
\* set, then the filter is reloaded
add_profanity_words(current, words) ==
    LET added == current \cup {lower_word(w) : w \in words}
        r == load_profanity_filter(added)
    IN  [profanity_words |-> r.profanity_words,
         profanity_patterns |-> r.profanity_patterns, ret |-> TRUE]

\* ModerationAPI.remove_profanity_words: the words are discarded as given,
\* then the filter is reloaded
remove_profanity_words(current, words) ==
    LET removed == current \ words
        r == load_profanity_filter(removed)
    IN  [profanity_words |-> r.profanity_words,
         profanity_patterns |-> r.profanity_patterns, ret |-> TRUE]

\* \b at position p: between message[p-1] and message[p], exactly one is a \w
IsWordAt(message, k) == k \in 1..Len(message) /\ IsWordChar(message[k])

WordBoundary(message, p) == IsWordAt(message, p - 1) # IsWordAt(message, p)

\* the pattern matches message[i .. i+Len(pattern)-1], ignoring case
MatchAt(pattern, message, i) ==
    /\ i >= 1
    /\ i + Len(pattern) - 1 <= Len(message)
    /\ WordBoundary(message, i)
    /\ \A k \in 1..Len(pattern) : lower(message[i + k - 1]) \in pattern[k]
    /\ WordBoundary(message, i + Len(pattern))

\* pattern.findall(message), as the set of the matched substrings
findall(pattern, message) ==
    {SubSeq(message, i, i + Len(pattern) - 1) :
        i \in {j \in 1..Len(message) : MatchAt(pattern, message, j)}}

\* findall, split and the count of upper-case characters, tabulated once for
\* the messages and the patterns of the model
KnownPatterns == {compile_pattern(w) : w \in basic_profanity_words \cup {WordBad}}

FindallOf == [m \in AllMessages |-> [p \in KnownPatterns |-> findall(p, m)]]

SplitOf == [m \in AllMessages |-> split(m)]

CapsCountOf ==
    [m \in AllMessages |-> Cardinality({i \in 1..Len(m) : isupper(m[i])})]

\* check_profanity: (has_profanity, found_words); the order of found_words
\* follows the iteration order of a set and is left out
check_profanity(message) ==
    IF ~config.rules.profanity_filter.enabled
    THEN [has |-> FALSE, found |-> {}]
    ELSE LET found == UNION {FindallOf[message][p] : p \in profanity_patterns}
         IN  [has |-> found # {}, found |-> found]

(***************************************************************************)
(* The other detectors.  st is the plugin's mutable state during a call:   *)
(* [users, violations, logged].                                            *)
(***************************************************************************)
\* get_user_status: get or create
get_user_status(st, user_id) ==
    IF user_id \in DOMAIN st.users
    THEN st
    ELSE [st EXCEPT !.users =
            [x \in DOMAIN st.users \cup {user_id} |->
                IF x = user_id THEN UserStatus(user_id) ELSE st.users[x]]]

\* a variant of check_spam: the history is not looked at
check_spam_tokens_only(st, user_id, message) ==
    IF ~config.rules.spam_detection.enabled
    THEN FALSE
    ELSE LET words == SplitOf[message]
             unique_words == Range(words)
         IN  \/ /\ Len(words) > 3
                /\ Cardinality(unique_words) * 10 < 3 * Len(words)
             \/ /\ Len(words) <= 3
                /\ Cardinality(unique_words) = 1
                /\ Len(words) > 1

\* a variant of check_spam: 30% of distinct tokens count as repetitive
check_spam_ratio_inclusive(st, user_id, message) ==
    IF ~config.rules.spam_detection.enabled
    THEN FALSE
    ELSE LET user == get_user_status(st, user_id).users[user_id]
             words == SplitOf[message]
             unique_words == Range(words)
         IN  \/ message \in Range(user.recent_messages)
             \/ /\ Len(words) > 3
                /\ Cardinality(unique_words) * 10 <= 3 * Len(words)
             \/ /\ Len(words) <= 3
                /\ Cardinality(unique_words) = 1
                /\ Len(words) > 1

check_spam(st, user_id, message) ==
    IF ~config.rules.spam_detection.enabled
    THEN FALSE
    ELSE LET user == get_user_status(st, user_id).users[user_id]
             words == SplitOf[message]
             unique_words == Range(words)
         IN  \/ message \in Range(user.recent_messages)
             \/ /\ Len(words) > 3
                \* len(unique_words) / len(words) < 0.3
                /\ Cardinality(unique_words) * 10 < 3 * Len(words)
             \/ /\ Len(words) <= 3
                /\ Cardinality(unique_words) = 1
                /\ Len(words) > 1

\* a variant of check_rate_limit: the time since the last message is not
\* looked at
check_rate_limit_count_only(st, user_id) ==
    IF ~config.rules.rate_limiting.enabled
    THEN FALSE
    ELSE LET user == get_user_status(st, user_id).users[user_id]
             max_per_minute == config.rules.rate_limiting.max_messages_per_minute
         IN  Len(user.recent_messages) >= max_per_minute

check_rate_limit(st, user_id) ==
    IF ~config.rules.rate_limiting.enabled
    THEN FALSE
    ELSE LET user == get_user_status(st, user_id).users[user_id]
             max_per_minute == config.rules.rate_limiting.max_messages_per_minute
             time_since_last == now - user.last_message_time
         IN  /\ Len(user.recent_messages) >= max_per_minute
             /\ time_since_last < 60

\* the pairs (caps_count, length), for the lengths up to 40, whose float
\* (caps_count / length) * 100 is above the exact value, an integer:
\* (11 / 20) * 100 is 55.00000000000001
FloatRoundsUp == { <<11, 20>>, <<7, 25>>, <<14, 25>>, <<22, 40>> }

\* (caps_count / len(message)) * 100 > max_caps, in floating point, for an
\* integer max_caps: the float is off the exact value by less than the
\* distance of a fraction from an integer, so it decides as the exact value
\* does unless that value is max_caps itself
caps_percentage_exceeds(caps_count, length, max_caps) ==
    \/ caps_count * 100 > max_caps * length
    \/ /\ caps_count * 100 = max_caps * length
       /\ <<caps_count, length>> \in FloatRoundsUp

check_caps_abuse(message) ==
    IF ~config.rules.caps_abuse.enabled
    THEN FALSE
    ELSE LET min_length == config.rules.caps_abuse.min_message_length
             caps_count == CapsCountOf[message]
             max_caps == config.rules.caps_abuse.max_caps_percentage
         IN  IF Len(message) < min_length
             THEN FALSE
             ELSE caps_percentage_exceeds(caps_count, Len(message), max_caps)

(***************************************************************************)
(* Actions on a user.                                                      *)
(***************************************************************************)
LogLine(level, user_id, action, duration, reason) ==
    [level |-> level, user_id |-> user_id, action |-> action,
     duration |-> duration, reason |-> reason]

\* current_time + timedelta(seconds=duration) raises
Overflows(duration) == now + duration > DatetimeMax

\* a variant of apply_moderation_action: an expiry is never moved earlier
apply_moderation_action_keep_later(st, user_id, action, duration, reason) ==
    LET s == get_user_status(st, user_id)
        later(old) == IF old > now + duration THEN old ELSE now + duration
    IN  CASE action = "mute" /\ ~Overflows(duration) ->
               [s EXCEPT !.users[user_id].is_muted = TRUE,
                         !.users[user_id].mute_until = later(@),
                         !.logged = Append(@,
                             LogLine("info", user_id, "mute", duration, reason))]
          [] action = "ban" /\ ~Overflows(duration) ->
               [s EXCEPT !.users[user_id].is_banned = TRUE,
                         !.users[user_id].ban_until = later(@),
                         !.logged = Append(@,
                             LogLine("info", user_id, "ban", duration, reason))]
          [] action = "kick" ->
               [s EXCEPT !.logged = Append(@,
                                  LogLine("info", user_id, "kick", None, reason))]
          [] action = "warn" ->
               [s EXCEPT !.logged = Append(@,
                                  LogLine("info", user_id, "warn", None, reason))]
          [] OTHER -> s

\* apply_moderation_action: the state it leaves.  The flag is assigned before
\* the expiry is computed; an exception of the second statement is caught
\* and logged with the first one done.
apply_moderation_action(st, user_id, action, duration, reason) ==
    LET s == get_user_status(st, user_id)
        failed == [s EXCEPT !.logged =
                     Append(@, LogLine("error", user_id, action, duration, "failed"))]
    IN  CASE action = "mute" ->
               IF Overflows(duration)
               THEN [failed EXCEPT !.users[user_id].is_muted = TRUE]
               ELSE [s EXCEPT !.users[user_id].is_muted = TRUE,
                              !.users[user_id].mute_until = now + duration,
                              !.logged = Append(@,
                                  LogLine("info", user_id, "mute", duration, reason))]
          [] action = "ban" ->
               IF Overflows(duration)
               THEN [failed EXCEPT !.users[user_id].is_banned = TRUE]
               ELSE [s EXCEPT !.users[user_id].is_banned = TRUE,
                              !.users[user_id].ban_until = now + duration,
                              !.logged = Append(@,
                                  LogLine("info", user_id, "ban", duration, reason))]
          [] action = "kick" ->
               [s EXCEPT !.logged = Append(@,
                                  LogLine("info", user_id, "kick", None, reason))]
          [] action = "warn" ->
               [s EXCEPT !.logged = Append(@,
                                  LogLine("info", user_id, "warn", None, reason))]
          [] OTHER -> s

\* apply_moderation_action: its return value
apply_moderation_action_ok(action, duration) ==
    ~(action \in {"mute", "ban"} /\ Overflows(duration))

UserViolation(user_id, violation_type, message, action_taken) ==
    [user_id |-> user_id,
     violation_type |-> violation_type,
     message |-> message,
     timestamp |-> now,
     action_taken |-> action_taken,
     moderator |-> None]

\* a variant of recent_violations: the violations of every user are counted
recent_violations_any_user(st, user_id) ==
    SelectSeq(st.violations, LAMBDA v : v.timestamp > now - 86400)

\* the violations of user_id with v.timestamp > datetime.now() - timedelta(hours=24)
recent_violations(st, user_id) ==
    SelectSeq(st.violations,
              LAMBDA v : v.user_id = user_id /\ v.timestamp > now - 86400)

CountAction(vs, action) == Len(SelectSeq(vs, LAMBDA v : v.action_taken = action))

\* a variant of check_escalation: the mutes are looked at before the warnings
check_escalation_kick_first(st, user_id) ==
    LET s == get_user_status(st, user_id)
        recent == recent_violations(s, user_id)
        warn_count == CountAction(recent, "warn")
        mute_count == CountAction(recent, "mute")
        kick_count == CountAction(recent, "kick")
    IN  IF mute_count >= config.escalation.mute_to_kick_threshold
        THEN apply_moderation_action(s, user_id, "kick", 300,
                                     "Escalation: too many mutes")
        ELSE IF warn_count >= config.escalation.warn_to_mute_threshold
        THEN apply_moderation_action(s, user_id, "mute", 300,
                                     "Escalation: too many warnings")
        ELSE IF kick_count >= config.escalation.kick_to_ban_threshold
        THEN apply_moderation_action(s, user_id, "ban", 3600,
                                     "Escalation: too many kicks")
        ELSE s

\* a variant of check_escalation: the ban branch counts the mutes
check_escalation_ban_on_mutes(st, user_id) ==
    LET s == get_user_status(st, user_id)
        recent == recent_violations(s, user_id)
        warn_count == CountAction(recent, "warn")
        mute_count == CountAction(recent, "mute")
    IN  IF warn_count >= config.escalation.warn_to_mute_threshold
        THEN apply_moderation_action(s, user_id, "mute", 300,
                                     "Escalation: too many warnings")
        ELSE IF mute_count >= config.escalation.mute_to_kick_threshold
        THEN apply_moderation_action(s, user_id, "kick", 300,
                                     "Escalation: too many mutes")
        ELSE IF mute_count >= config.escalation.kick_to_ban_threshold
        THEN apply_moderation_action(s, user_id, "ban", 3600,
                                     "Escalation: too many kicks")
        ELSE s

check_escalation(st, user_id) ==
    LET s == get_user_status(st, user_id)
        recent == recent_violations(s, user_id)
        warn_count == CountAction(recent, "warn")
        mute_count == CountAction(recent, "mute")
        kick_count == CountAction(recent, "kick")
    IN  IF warn_count >= config.escalation.warn_to_mute_threshold
        THEN apply_moderation_action(s, user_id, "mute", 300,
                                     "Escalation: too many warnings")
        ELSE IF mute_count >= config.escalation.mute_to_kick_threshold
        THEN apply_moderation_action(s, user_id, "kick", 300,
                                     "Escalation: too many mutes")
        ELSE IF kick_count >= config.escalation.kick_to_ban_threshold
        THEN apply_moderation_action(s, user_id, "ban", 3600,
                                     "Escalation: too many kicks")
        ELSE s

\* a variant of record_violation: the escalation is evaluated before the
\* violation is appended
record_violation_escalate_first(st, user_id, violation_type, message, action_taken) ==
    LET s0 == get_user_status(st, user_id)
        s1 == IF config.escalation.enabled THEN check_escalation(s0, user_id) ELSE s0
        s2 == [s1 EXCEPT !.violations =
                 Append(@, UserViolation(user_id, violation_type, message, action_taken))]
    IN  [s2 EXCEPT !.users[user_id].violation_count = @ + 1]

\* a variant of record_violation: the count marks that the user has
\* violations, it is set to one
record_violation_count_once(st, user_id, violation_type, message, action_taken) ==
    LET s1 == [st EXCEPT !.violations =
                 Append(@, UserViolation(user_id, violation_type, message, action_taken))]
        s2 == get_user_status(s1, user_id)
        s3 == [s2 EXCEPT !.users[user_id].violation_count = 1]
    IN  IF config.escalation.enabled
        THEN check_escalation(s3, user_id)
        ELSE s3

record_violation(st, user_id, violation_type, message, action_taken) ==
    LET s1 == [st EXCEPT !.violations =
                 Append(@, UserViolation(user_id, violation_type, message, action_taken))]
        s2 == get_user_status(s1, user_id)
        s3 == [s2 EXCEPT !.users[user_id].violation_count = @ + 1]
    IN  IF config.escalation.enabled
        THEN check_escalation(s3, user_id)
        ELSE s3

(***************************************************************************)
(* The moderation pipeline.  During a call the state record also carries   *)
(* the call's local lists: vio (violations) and actions_taken.             *)
(***************************************************************************)
\* a variant of Detect: an action already taken in the call is not listed
\* a second time
Detect_action_once(p, user_id, violation_type, action, duration, reason, message) ==
    LET p1 == [p EXCEPT !.vio = Append(@, violation_type)]
        p2 == apply_moderation_action(p1, user_id, action, duration, reason)
        p3 == record_violation(p2, user_id, violation_type, message, action)
    IN  IF action \in Range(p3.actions_taken)
        THEN p3
        ELSE [p3 EXCEPT !.actions_taken = Append(@, action)]

\* one positive detection: append the type, apply the rule's action, record
\* the violation, append the action's value
Detect(p, user_id, violation_type, action, duration, reason, message) ==
    LET p1 == [p EXCEPT !.vio = Append(@, violation_type)]
        p2 == apply_moderation_action(p1, user_id, action, duration, reason)
        p3 == record_violation(p2, user_id, violation_type, message, action)
    IN  [p3 EXCEPT !.actions_taken = Append(@, action)]

StepProfanity(p, user_id, message) ==
    IF check_profanity(message).has
    THEN Detect(p, user_id, "profanity", "warn", 300, "Profanity detected", message)
    ELSE p

\* a variant of StepSpam: the check runs on an empty history too
StepSpam_unguarded(p, user_id, message) ==
    IF check_spam(p, user_id, message)
    THEN Detect(p, user_id, "spam", "mute", 300, "Spam detected", message)
    ELSE p

StepSpam(p, user_id, message) ==
    IF Len(p.users[user_id].recent_messages) > 0 /\ check_spam(p, user_id, message)
    THEN Detect(p, user_id, "spam", "mute", 300, "Spam detected", message)
    ELSE p

StepRateLimit(p, user_id, message) ==
    IF Len(p.users[user_id].recent_messages) >= 3 /\ check_rate_limit(p, user_id)
    THEN Detect(p, user_id, "rate_limit", "mute", 60, "Rate limit exceeded", message)
    ELSE p

StepCapsAbuse(p, user_id, message) ==
    IF check_caps_abuse(message)
    THEN Detect(p, user_id, "caps_abuse", "warn", 300, "Excessive caps usage", message)
    ELSE p

\* the capacity of recent_messages
HistoryCap == 10

\* a variant of UpdateHistory: a full history drops the new message
UpdateHistory_drop_newest(p, user_id, message) ==
    LET appended == Append(p.users[user_id].recent_messages, message)
    IN  [p EXCEPT !.users[user_id].last_message_time = now,
                  !.users[user_id].recent_messages =
                      IF Len(appended) > HistoryCap
                      THEN SubSeq(appended, 1, HistoryCap)
                      ELSE appended]

\* user.last_message_time = current_time; append; keep only the last 10
UpdateHistory(p, user_id, message) ==
    LET appended == Append(p.users[user_id].recent_messages, message)
    IN  [p EXCEPT !.users[user_id].last_message_time = now,
                  !.users[user_id].recent_messages =
                      IF Len(appended) > HistoryCap THEN Tail(appended) ELSE appended]

\* a variant of Allowed: any violation suppresses the message
Allowed_any_violation(vio) == Len(vio) = 0

\* should_delete / allowed
Allowed(vio) ==
    LET should_delete == \E i \in DOMAIN vio : vio[i] \in {"profanity", "spam"}
    IN  Len(vio) = 0 \/ ~should_delete

\* a variant of MuteIsActive: the mute is enforced at its expiry as well
MuteIsActive_at_expiry(user) ==
    user.is_muted /\ user.mute_until # None /\ now <= user.mute_until

\* the check of a current ban, and of a current mute
BanIsActive(user) ==
    user.is_banned /\ user.ban_until # None /\ now < user.ban_until

MuteIsActive(user) ==
    user.is_muted /\ user.mute_until # None /\ now < user.mute_until

\* a variant of punishment_check: a punishment is enforced while its flag is
\* set
punishment_check_by_flag(user) ==
    IF user.is_banned
    THEN << [allowed |-> FALSE, action |-> "rejected",
             reason |-> "User is banned", ban_until |-> user.ban_until] >>
    ELSE IF user.is_muted
    THEN << [allowed |-> FALSE, action |-> "rejected",
             reason |-> "User is muted", mute_until |-> user.mute_until] >>
    ELSE << >>

\* a variant of punishment_check: the mute is checked before the ban
punishment_check_mute_first(user) ==
    IF MuteIsActive(user)
    THEN << [allowed |-> FALSE, action |-> "rejected",
             reason |-> "User is muted", mute_until |-> user.mute_until] >>
    ELSE IF BanIsActive(user)
    THEN << [allowed |-> FALSE, action |-> "rejected",
             reason |-> "User is banned", ban_until |-> user.ban_until] >>
    ELSE << >>

\* the check of a current ban, then of a current mute: the rejection to
\* return, if any, as a sequence of at most one dictionary.  The expiry is
\* returned as the timestamp itself, not as its ISO text.
punishment_check(user) ==
    IF BanIsActive(user)
    THEN << [allowed |-> FALSE, action |-> "rejected",
             reason |-> "User is banned", ban_until |-> user.ban_until] >>
    ELSE IF MuteIsActive(user)
    THEN << [allowed |-> FALSE, action |-> "rejected",
             reason |-> "User is muted", mute_until |-> user.mute_until] >>
    ELSE << >>

\* a variant of Reject: the message tracking is updated before the return
Reject_after_tracking(s0, user_id, message, rejection) ==
    [st |-> UpdateHistory(s0, user_id, message), ret |-> rejection]

\* the early return of a rejected message
Reject(s0, user_id, message, rejection) == [st |-> s0, ret |-> rejection]

\* a variant of moderate_message: the caps check runs first
moderate_message_caps_first(st, user_id, message) ==
    LET s0 == get_user_status(st, user_id)
        user == s0.users[user_id]
        rejection == punishment_check(user)
    IN  IF rejection # << >>
        THEN Reject(s0, user_id, message, rejection[1])
        ELSE LET p0 == [users |-> s0.users, violations |-> s0.violations,
                        logged |-> s0.logged, vio |-> <<>>, actions_taken |-> <<>>]
                 p1 == StepCapsAbuse(p0, user_id, message)
                 p2 == StepProfanity(p1, user_id, message)
                 p3 == StepSpam(p2, user_id, message)
                 p4 == StepRateLimit(p3, user_id, message)
                 p5 == UpdateHistory(p4, user_id, message)
             IN  [st |-> [users |-> p5.users, violations |-> p5.violations,
                          logged |-> p5.logged],
                  ret |-> [allowed |-> Allowed(p5.vio),
                           violations |-> p5.vio,
                           actions_taken |-> p5.actions_taken,
                           user_status |-> p5.users[user_id]]]

\* a variant of moderate_message: the history is updated before the
\* detectors run
moderate_message_history_first(st, user_id, message) ==
    LET s0 == get_user_status(st, user_id)
        user == s0.users[user_id]
        rejection == punishment_check(user)
    IN  IF rejection # << >>
        THEN Reject(s0, user_id, message, rejection[1])
        ELSE LET p0 == [users |-> s0.users, violations |-> s0.violations,
                        logged |-> s0.logged, vio |-> <<>>, actions_taken |-> <<>>]
                 p1 == UpdateHistory(p0, user_id, message)
                 p2 == StepProfanity(p1, user_id, message)
                 p3 == StepSpam(p2, user_id, message)
                 p4 == StepRateLimit(p3, user_id, message)
                 p5 == StepCapsAbuse(p4, user_id, message)
             IN  [st |-> [users |-> p5.users, violations |-> p5.violations,
                          logged |-> p5.logged],
                  ret |-> [allowed |-> Allowed(p5.vio),
                           violations |-> p5.vio,
                           actions_taken |-> p5.actions_taken,
                           user_status |-> p5.users[user_id]]]

\* ChatModerationPlugin.moderate_message: [st: the state it leaves, ret: the
\* dictionary it returns]
moderate_message(st, user_id, message) ==
    LET s0 == get_user_status(st, user_id)
        user == s0.users[user_id]
        rejection == punishment_check(user)
    IN  IF rejection # << >>
        THEN Reject(s0, user_id, message, rejection[1])
        ELSE LET p0 == [users |-> s0.users, violations |-> s0.violations,
                        logged |-> s0.logged, vio |-> <<>>, actions_taken |-> <<>>]
                 p1 == StepProfanity(p0, user_id, message)
                 p2 == StepSpam(p1, user_id, message)
                 p3 == StepRateLimit(p2, user_id, message)
                 p4 == StepCapsAbuse(p3, user_id, message)
                 p5 == UpdateHistory(p4, user_id, message)
             IN  [st |-> [users |-> p5.users, violations |-> p5.violations,
                          logged |-> p5.logged],
                  ret |-> [allowed |-> Allowed(p5.vio),
                           violations |-> p5.vio,
                           actions_taken |-> p5.actions_taken,
                           user_status |-> p5.users[user_id]]]

(***************************************************************************)
(* ModerationAPI.                                                          *)
(***************************************************************************)
\* _has_bypass_permission; config["whitelist"] of a configuration without
\* that section raises KeyError
has_bypass_permission(user_roles) ==
    IF ~config.whitelist.enabled
    THEN FALSE
    ELSE user_roles \cap config.whitelist.moderator_roles # {}

BypassRaises(user_roles) == user_roles # {} /\ "whitelist" \notin DOMAIN config

\* a variant of api_moderate_message: the user's record is fetched before the
\* bypass check
api_moderate_message_fetch_first(st, user_id, message, user_roles) ==
    IF BypassRaises(user_roles)
    THEN [st |-> st, ret |-> [raised |-> "KeyError"]]
    ELSE IF user_roles # {} /\ has_bypass_permission(user_roles)
    THEN [st |-> get_user_status(st, user_id),
          ret |-> [allowed |-> TRUE, reason |-> "User has bypass permissions",
                   violations |-> <<>>, actions_taken |-> <<>>]]
    ELSE moderate_message(st, user_id, message)

\* ModerationAPI.moderate_message
api_moderate_message(st, user_id, message, user_roles) ==
    IF BypassRaises(user_roles)
    THEN [st |-> st, ret |-> [raised |-> "KeyError"]]
    ELSE IF user_roles # {} /\ has_bypass_permission(user_roles)
    THEN [st |-> st,
          ret |-> [allowed |-> TRUE, reason |-> "User has bypass permissions",
                   violations |-> <<>>, actions_taken |-> <<>>]]
    ELSE moderate_message(st, user_id, message)

\* a variant of api_apply_manual_action: the user's record is fetched before
\* the action string is converted
api_apply_manual_action_fetch_first(st, user_id, action, duration, reason, moderator_id) ==
    IF action \notin ModerationAction
    THEN [st |-> get_user_status(st, user_id), ret |-> FALSE]
    ELSE LET s == apply_moderation_action(st, user_id, action, duration, reason)
             success == apply_moderation_action_ok(action, duration)
         IN  [st |-> IF success /\ moderator_id # ""
                     THEN [s EXCEPT !.logged = Append(@,
                              LogLine("info", user_id, action, duration,
                                      "Manual action"))]
                     ELSE s,
              ret |-> success]

\* a variant of apply_manual_action: an action applied by a moderator is
\* recorded as a violation of the user
api_apply_manual_action_recorded(st, user_id, action, duration, reason, moderator_id) ==
    IF action \notin ModerationAction
    THEN [st |-> st, ret |-> FALSE]
    ELSE LET s == apply_moderation_action(st, user_id, action, duration, reason)
             success == apply_moderation_action_ok(action, duration)
         IN  [st |-> IF success
                     THEN record_violation(s, user_id, "inappropriate_content",
                                           << >>, action)
                     ELSE s,
              ret |-> success]

\* ModerationAPI.apply_manual_action: ModerationAction(action) raises
\* ValueError for an unknown string, and the call returns False
api_apply_manual_action(st, user_id, action, duration, reason, moderator_id) ==
    IF action \notin ModerationAction
    THEN [st |-> st, ret |-> FALSE]
    ELSE LET s == apply_moderation_action(st, user_id, action, duration, reason)
             success == apply_moderation_action_ok(action, duration)
         IN  [st |-> IF success /\ moderator_id # ""
                     THEN [s EXCEPT !.logged = Append(@,
                              LogLine("info", user_id, action, duration,
                                      "Manual action"))]
                     ELSE s,
              ret |-> success]

\* a variant of ExpireUser: the flags are cleared and the expiries are kept
ExpireUser_flags_only(user) ==
    LET m == IF user.is_muted /\ user.mute_until # None /\ now >= user.mute_until
             THEN [user EXCEPT !.is_muted = FALSE]
             ELSE user
    IN  IF m.is_banned /\ m.ban_until # None /\ now >= m.ban_until
        THEN [m EXCEPT !.is_banned = FALSE]
        ELSE m

\* a variant of ExpireUser: a punishment is lifted only after its expiry
ExpireUser_after_expiry(user) ==
    LET m == IF user.is_muted /\ user.mute_until # None /\ now > user.mute_until
             THEN [user EXCEPT !.is_muted = FALSE, !.mute_until = None]
             ELSE user
    IN  IF m.is_banned /\ m.ban_until # None /\ now > m.ban_until
        THEN [m EXCEPT !.is_banned = FALSE, !.ban_until = None]
        ELSE m

\* cleanup_expired_punishments, for one user
ExpireUser(user) ==
    LET m == IF user.is_muted /\ user.mute_until # None /\ now >= user.mute_until
             THEN [user EXCEPT !.is_muted = FALSE, !.mute_until = None]
             ELSE user
    IN  IF m.is_banned /\ m.ban_until # None /\ now >= m.ban_until
        THEN [m EXCEPT !.is_banned = FALSE, !.ban_until = None]
        ELSE m

\* a variant of cleanup_expired_punishments: the sweep also resets the
\* violation count of a user whose punishment it lifts
cleanup_resets_count(us) ==
    [u \in DOMAIN us |->
        IF ExpireUser(us[u]) # us[u]
        THEN [ExpireUser(us[u]) EXCEPT !.violation_count = 0]
        ELSE us[u]]

cleanup_expired_punishments(us) == [u \in DOMAIN us |-> ExpireUser(us[u])]

\* datetime.isoformat(): the text of an instant
isoformat(t) == [iso |-> t]

\* ModerationAPI.get_user_status: the record is fetched, and made for a user
\* not yet known; an expiry is returned as a list of its text, empty for None
api_get_user_status(st, user_id) ==
    LET s == get_user_status(st, user_id)
        user == s.users[user_id]
    IN  [st |-> s,
         ret |-> [user_id |-> user.user_id,
                  is_muted |-> user.is_muted,
                  is_banned |-> user.is_banned,
                  mute_until |-> IF user.mute_until # None
                                 THEN << isoformat(user.mute_until) >> ELSE << >>,
                  ban_until |-> IF user.ban_until # None
                                THEN << isoformat(user.ban_until) >> ELSE << >>,
                  violation_count |-> user.violation_count]]

ViolationType ==
    {"profanity", "spam", "rate_limit", "caps_abuse", "repetitive",
     "inappropriate_content"}

\* get_moderation_stats; a type without a violation has no key in
\* violation_types
get_moderation_stats(us, vs) ==
    LET present == {vs[i].violation_type : i \in DOMAIN vs}
    IN  [total_violations |-> Len(vs),
         violation_types |->
             [t \in present |->
                 Cardinality({i \in DOMAIN vs : vs[i].violation_type = t})],
         active_mutes |-> Cardinality({u \in DOMAIN us : us[u].is_muted}),
         active_bans |-> Cardinality({u \in DOMAIN us : us[u].is_banned}),
         total_users_tracked |-> Cardinality(DOMAIN us)]

\* the paths of the configuration whose value is a dictionary
DictPaths ==
    { <<"rules">>, <<"escalation">>, <<"whitelist">>,
      <<"rules", "profanity_filter">>, <<"rules", "spam_detection">>,
      <<"rules", "rate_limiting">>, <<"rules", "caps_abuse">> }

\* deep_update of update_config: a dictionary of the update is merged into a
\* dictionary of the base, any other value replaces what the base holds
RECURSIVE deep_update(_, _, _)
deep_update(base_dict, update_dict, path) ==
    [key \in DOMAIN base_dict \cup DOMAIN update_dict |->
        IF key \notin DOMAIN update_dict
        THEN base_dict[key]
        ELSE IF key \in DOMAIN base_dict /\ Append(path, key) \in DictPaths
        THEN deep_update(base_dict[key], update_dict[key], Append(path, key))
        ELSE update_dict[key]]

\* ModerationAPI.update_config: the merge is done in place before config.json
\* is written; a failure of the write is caught and False is returned
update_config(cfg, config_updates, saved) ==
    [config |-> deep_update(cfg, config_updates, << >>), ret |-> saved]

\* config["whitelist"]["bypass_users"], created empty when the key is missing
with_bypass_users(whitelist) ==
    [k \in DOMAIN whitelist \cup {"bypass_users"} |->
        IF k \in DOMAIN whitelist THEN whitelist[k] ELSE << >>]

\* ModerationAPI.whitelist_user: a KeyError of config["whitelist"] is caught
whitelist_user(cfg, user_id) ==
    IF "whitelist" \notin DOMAIN cfg
    THEN [config |-> cfg, ret |-> FALSE]
    ELSE LET whitelist == with_bypass_users(cfg.whitelist)
         IN  IF user_id \notin Range(whitelist.bypass_users)
             THEN [config |->
                      [cfg EXCEPT !.whitelist =
                          [whitelist EXCEPT !.bypass_users = Append(@, user_id)]],
                   ret |-> TRUE]
             ELSE [config |-> [cfg EXCEPT !.whitelist = whitelist], ret |-> FALSE]

\* list.remove: the first occurrence is taken out
list_remove(list, x) ==
    LET i == CHOOSE k \in 1..Len(list) :
                 list[k] = x /\ \A j \in 1..(k - 1) : list[j] # x
    IN  SubSeq(list, 1, i - 1) \o SubSeq(list, i + 1, Len(list))

\* ModerationAPI.remove_from_whitelist
remove_from_whitelist(cfg, user_id) ==
    IF "whitelist" \notin DOMAIN cfg
    THEN [config |-> cfg, ret |-> FALSE]
    ELSE IF /\ "bypass_users" \in DOMAIN cfg.whitelist
            /\ user_id \in Range(cfg.whitelist.bypass_users)
    THEN [config |-> [cfg EXCEPT !.whitelist.bypass_users = list_remove(@, user_id)],
          ret |-> TRUE]
    ELSE [config |-> cfg, ret |-> FALSE]

(***************************************************************************)
(* The state machine.                                                      *)
(***************************************************************************)
RECURSIVE SumHistory(_, _)
SumHistory(us, ids) ==
    IF ids = {}
    THEN 0
    ELSE LET u == CHOOSE x \in ids : TRUE
         IN  Len(us[u].recent_messages) + SumHistory(us, ids \ {u})

TotalMessages(us) == SumHistory(us, DOMAIN us)

State == [users |-> users, violations |-> violations, logged |-> <<>>]

\* the threads of the callers, none of them in a call
Threads == {"t1", "t2"}

NoCalls == [t \in Threads |-> [pc |-> "idle"]]

\* the state after ModerationAPI(config_file), for the configurations C
InitWith(C) ==
    /\ users = [u \in {} |-> UserStatus(u)]
    /\ violations = <<>>
    /\ config \in C
    /\ profanity_words = load_profanity_words
    /\ profanity_patterns = load_profanity_patterns
    /\ now = 0
    /\ last = [op |-> "init"]
    /\ calls = NoCalls

\* a call of ModerationAPI.moderate_message with inputs of U, M and R, while
\* the histories hold at most max messages
ModerateMessage(U, M, R, max) ==
    \E user_id \in U, message \in M, user_roles \in R :
        LET r == api_moderate_message(State, user_id, message, user_roles)
        IN  /\ TotalMessages(r.st.users) <= max
            /\ users' = r.st.users
            /\ violations' = r.st.violations
            /\ last' = [op |-> "moderate_message", user_id |-> user_id,
                        message |-> message, user_roles |-> user_roles,
                        ret |-> r.ret, logged |-> r.st.logged]
            /\ UNCHANGED <<calls, config, profanity_words, profanity_patterns, now>>

\* a call of ModerationAPI.apply_manual_action
ApplyManualAction(U, A, D) ==
    \E user_id \in U, action \in A, duration \in D :
        LET r == api_apply_manual_action(State, user_id, action, duration,
                                         "manual", "mod1")
        IN  /\ users' = r.st.users
            /\ violations' = r.st.violations
            /\ last' = [op |-> "apply_manual_action", user_id |-> user_id,
                        action |-> action, duration |-> duration,
                        ret |-> r.ret, logged |-> r.st.logged]
            /\ UNCHANGED <<calls, config, profanity_words, profanity_patterns, now>>

\* a call of ModerationAPI.cleanup
Cleanup ==
    /\ users' = cleanup_expired_punishments(users)
    /\ last' = [op |-> "cleanup"]
    /\ UNCHANGED <<calls, violations, config, profanity_words, profanity_patterns, now>>

\* time passes between two calls, up to a later instant of T
Tick(T) ==
    /\ now' \in {t \in T : t > now}
    /\ last' = [op |-> "tick"]
    /\ UNCHANGED <<calls, users, violations, config, profanity_words, profanity_patterns>>

\* a call of ModerationAPI.get_user_status
GetUserStatus(U) ==
    \E user_id \in U :
        LET r == api_get_user_status(State, user_id)
        IN  /\ users' = r.st.users
            /\ last' = [op |-> "get_user_status", user_id |-> user_id,
                        ret |-> r.ret, logged |-> r.st.logged]
            /\ UNCHANGED <<calls, violations, config, profanity_words,
                           profanity_patterns, now>>

\* a call of ChatModerationPlugin.check_spam, which makes the record of a
\* user not yet known
CheckSpam(U, M) ==
    \E user_id \in U, message \in M :
        /\ users' = get_user_status(State, user_id).users
        /\ last' = [op |-> "check_spam", user_id |-> user_id, message |-> message,
                    ret |-> check_spam(State, user_id, message)]
        /\ UNCHANGED <<calls, violations, config, profanity_words,
                       profanity_patterns, now>>

\* a call of ModerationAPI.get_stats
GetStats ==
    /\ last' = [op |-> "get_stats", ret |-> get_moderation_stats(users, violations)]
    /\ UNCHANGED <<calls, users, violations, config, profanity_words,
                   profanity_patterns, now>>

\* a call of ModerationAPI.update_config; the write of config.json succeeds
\* or fails
UpdateConfig(C) ==
    \E config_updates \in C, saved \in BOOLEAN :
        LET r == update_config(config, config_updates, saved)
        IN  /\ config' = r.config
            /\ last' = [op |-> "update_config", config_updates |-> config_updates,
                        ret |-> r.ret]
            /\ UNCHANGED <<calls, users, violations, profanity_words,
                           profanity_patterns, now>>

\* the API as a whole: both users send messages, a moderator acts on u1
Init == InitWith(Configs)

Next ==
    \/ ModerateMessage(UserIds, ApiMessages, RoleSets, MaxApiMessages)
    \/ ApplyManualAction({"u1"}, ActionStrings, Durations)
    \/ Cleanup
    \/ Tick(ApiInstants)

Spec == Init /\ [][Next]_vars

\* the moderation pipeline under the default configuration: u1 sends every
\* kind of message, u2 sends profanity
InitPipeline == InitWith({default_config})

NextPipeline ==
    \/ ModerateMessage({"u1"}, Messages, {{}}, MaxMessages)
    \/ ModerateMessage({"u2"}, {MsgDamn}, {{}}, MaxMessages)
    \/ Cleanup
    \/ Tick(Instants)

SpecPipeline == InitPipeline /\ [][NextPipeline]_vars

\* one user sends up to a rate limit of three messages per minute
InitRate == InitWith({rate_config})

NextRate ==
    \/ ModerateMessage({"u1"}, Messages, {{}}, MaxRateMessages)
    \/ Cleanup
    \/ Tick(ApiInstants)

SpecRate == InitRate /\ [][NextRate]_vars

\* one user fills the history beyond its capacity, the spam rule off
InitHistory == InitWith({history_config})

NextHistory ==
    \/ ModerateMessage({"u1"}, HistoryMessages, {{}}, HistoryCap)
    \/ Cleanup
    \/ Tick(ApiInstants)

SpecHistory == InitHistory /\ [][NextHistory]_vars

\* the detectors, each of them on or off, with a rate limit of three
InitDetectors == InitWith(DetectorConfigs)

NextDetectors ==
    \/ ModerateMessage({"u1"}, Messages, {{}}, MaxRateMessages)
    \/ Cleanup
    \/ Tick(ApiInstants)

SpecDetectors == InitDetectors /\ [][NextDetectors]_vars

\* one user sends distinct clean messages one after the other, under each of
\* the rate limits: the number sent is the number of the newest message of
\* the history
BurstIndex(m) == CHOOSE k \in DOMAIN LowerLetters : BurstMessage(k) = m

BurstSent ==
    IF "u1" \in DOMAIN users /\ users["u1"].recent_messages # << >>
    THEN BurstIndex(users["u1"].recent_messages[Len(users["u1"].recent_messages)])
    ELSE 0

NextBurstMessages ==
    IF BurstSent < MaxBurst THEN {BurstMessage(BurstSent + 1)} ELSE {}

InitBurst == InitWith(BurstConfigs)

NextBurst ==
    \/ ModerateMessage({"u1"}, NextBurstMessages, {{}}, HistoryCap)
    \/ Cleanup
    \/ Tick(ApiInstants)

SpecBurst == InitBurst /\ [][NextBurst]_vars

\* one user sends distinct clean messages under the configurations of the
\* rate-limit detector
InitLimiter == InitWith(LimiterConfigs)

NextLimiter ==
    \/ ModerateMessage({"u1"}, NextBurstMessages, {{}}, HistoryCap)
    \/ Cleanup
    \/ Tick(ApiInstants)

SpecLimiter == InitLimiter /\ [][NextLimiter]_vars

\* check_spam is called between the messages of one user, the spam rule on
\* or off
InitSpam == InitWith({default_config, history_config})

NextSpam ==
    \/ ModerateMessage({"u1"}, SpamMessages, {{}}, MaxSpamMessages)
    \/ CheckSpam(UserIds, SpamMessages)
    \/ Cleanup
    \/ Tick(ApiInstants)

SpecSpam == InitSpam /\ [][NextSpam]_vars

\* one user collects warnings and mutes over a day
InitEscalation == InitWith(EscalationConfigs)

NextEscalation ==
    \/ ModerateMessage({"u1"}, {MsgHello, MsgDamn, MsgCaps}, {{}},
                       MaxEscalationMessages)
    \/ Cleanup
    \/ Tick(Instants)

SpecEscalation == InitEscalation /\ [][NextEscalation]_vars

\* one user is muted by the rules, with a rate limit of three, and muted and
\* banned by a moderator for one and for five minutes
InitOverwrite == InitWith({rate_config})

NextOverwrite ==
    \/ ModerateMessage({"u1"}, {MsgHello, MsgDamn, MsgCaps}, {{}},
                       MaxOverwriteMessages)
    \/ ApplyManualAction({"u1"}, {"mute", "ban"}, MuteDurations)
    \/ Cleanup
    \/ Tick(ApiInstants)

SpecOverwrite == InitOverwrite /\ [][NextOverwrite]_vars

\* one user is muted and banned by a moderator; the punishments expire with
\* the clock, with and without a sweep, and the user's status and the
\* statistics are read
InitExpiry == InitWith({default_config})

NextExpiry ==
    \/ ModerateMessage({"u1"}, ApiMessages, {{}}, MaxExpiryMessages)
    \/ ApplyManualAction({"u1"}, {"mute", "ban"}, ExpiryDurations)
    \/ Cleanup
    \/ GetUserStatus({"u1"})
    \/ GetStats
    \/ Tick(ApiInstants)

SpecExpiry == InitExpiry /\ [][NextExpiry]_vars

\* a call of ModerationAPI.add_profanity_words
AddProfanityWords(W) ==
    \E words \in W :
        LET r == add_profanity_words(profanity_words, words)
        IN  /\ profanity_words' = r.profanity_words
            /\ profanity_patterns' = r.profanity_patterns
            /\ last' = [op |-> "add_profanity_words", words |-> words,
                        ret |-> r.ret]
            /\ UNCHANGED <<calls, users, violations, config, now>>

\* a call of ModerationAPI.remove_profanity_words
RemoveProfanityWords(W) ==
    \E words \in W :
        LET r == remove_profanity_words(profanity_words, words)
        IN  /\ profanity_words' = r.profanity_words
            /\ profanity_patterns' = r.profanity_patterns
            /\ last' = [op |-> "remove_profanity_words", words |-> words,
                        ret |-> r.ret]
            /\ UNCHANGED <<calls, users, violations, config, now>>

\* a call of ModerationAPI.whitelist_user
WhitelistUser(U) ==
    \E user_id \in U :
        LET r == whitelist_user(config, user_id)
        IN  /\ config' = r.config
            /\ last' = [op |-> "whitelist_user", user_id |-> user_id, ret |-> r.ret]
            /\ UNCHANGED <<calls, users, violations, profanity_words,
                           profanity_patterns, now>>

\* a call of ModerationAPI.remove_from_whitelist
RemoveFromWhitelist(U) ==
    \E user_id \in U :
        LET r == remove_from_whitelist(config, user_id)
        IN  /\ config' = r.config
            /\ last' = [op |-> "remove_from_whitelist", user_id |-> user_id,
                        ret |-> r.ret]
            /\ UNCHANGED <<calls, users, violations, profanity_words,
                           profanity_patterns, now>>

\* users are whitelisted and taken off the whitelist between messages
InitWhitelist == InitWith(WhitelistConfigs)

NextWhitelist ==
    \/ ModerateMessage(UserIds, {MsgHello, MsgDamn}, {{}}, MaxWhitelistMessages)
    \/ WhitelistUser(UserIds)
    \/ RemoveFromWhitelist(UserIds)
    \/ Cleanup
    \/ Tick(ApiInstants)

SpecWhitelist == InitWhitelist /\ [][NextWhitelist]_vars

\* one user sends messages under a rate limit of one message per minute
InitGuards == InitWith({guard_config})

NextGuards ==
    \/ ModerateMessage({"u1"}, {MsgHello, MsgRepeat, MsgDamn, MsgLeet}, {{}},
                       MaxGuardMessages)
    \/ Cleanup
    \/ Tick(ApiInstants)

SpecGuards == InitGuards /\ [][NextGuards]_vars

\* one user sends messages while the word list is mutated
InitWords == InitWith({default_config})

NextWords ==
    \/ ModerateMessage({"u1"}, {MsgHello, MsgDamn, MsgBad}, {{}}, MaxWordMessages)
    \/ AddProfanityWords(WordLists)
    \/ RemoveProfanityWords(WordLists)
    \/ Cleanup
    \/ Tick(ApiInstants)

SpecWords == InitWords /\ [][NextWords]_vars

\* one user sends messages in capitals under each setting of the caps rule
InitCaps == InitWith(CapsConfigs)

NextCaps ==
    \/ ModerateMessage({"u1"}, CapsMessages, {{}}, MaxCapsMessages)
    \/ Cleanup
    \/ Tick(ApiInstants)

SpecCaps == InitCaps /\ [][NextCaps]_vars

\* the API with its read operations and update_config: u1 sends messages and
\* is acted on, the status of both users is read
InitStatus == InitWith({default_config})

NextStatus ==
    \/ ModerateMessage({"u1"}, ApiMessages, {{}}, MaxStatusMessages)
    \/ ApplyManualAction({"u1"}, ActionStrings, Durations)
    \/ Cleanup
    \/ GetUserStatus(UserIds)
    \/ GetStats
    \/ UpdateConfig(ConfigUpdates)
    \/ Tick(ApiInstants)

SpecStatus == InitStatus /\ [][NextStatus]_vars

(***************************************************************************)
(* Concurrent callers.  The plugin takes no lock; the threads of a caller  *)
(* (the request handlers of examples/web_interface.py share one            *)
(* ModerationAPI) switch between the calls a method makes.  A thread is    *)
(* idle, in a call at the position pc, or done with its call.              *)
(***************************************************************************)
AllIdle == \A t \in Threads : calls[t].pc = "idle"

\* the end of the call of thread t
Return(t, ret) == [calls EXCEPT ![t].pc = "done", ![t].ret = ret]

\* the pipeline state of the call of thread t: the shared state and its
\* local lists
PipelineOf(t) ==
    [users |-> users, violations |-> violations, logged |-> <<>>,
     vio |-> calls[t].vio, actions_taken |-> calls[t].actions_taken]

\* moderate_message is entered without roles: user = get_user_status(user_id)
ModerateBegin(T, U, M) ==
    \E t \in T, user_id \in U, message \in M :
        /\ calls[t].pc = "idle"
        /\ users' = get_user_status(State, user_id).users
        /\ calls' = [calls EXCEPT ![t] =
               [op |-> "moderate_message", pc |-> "check_ban",
                user_id |-> user_id, message |-> message,
                vio |-> <<>>, actions_taken |-> <<>>,
                observed |-> {}, ret |-> <<>>]]
        /\ UNCHANGED <<violations, config, profanity_words, profanity_patterns,
                       now, last>>

\* the punishment check: user.is_banned and user.ban_until are read, then,
\* after the call of datetime.now(), user.ban_until is read again and
\* compared; the same for the mute.  None does not compare with a datetime.
ModerateCheck(T) ==
    \E t \in T :
        LET c == calls[t]
            user == users[c.user_id]
            pc == c.pc
        IN  /\ pc \in {"check_ban", "compare_ban", "check_mute", "compare_mute"}
            /\ calls' =
                 CASE pc = "check_ban" ->
                        IF user.is_banned /\ user.ban_until # None
                        THEN [calls EXCEPT ![t].pc = "compare_ban"]
                        ELSE [calls EXCEPT ![t].pc = "check_mute"]
                   [] pc = "compare_ban" ->
                        IF user.ban_until = None
                        THEN Return(t, [raised |-> "TypeError"])
                        ELSE IF now < user.ban_until
                        THEN Return(t, [allowed |-> FALSE, action |-> "rejected",
                                        reason |-> "User is banned",
                                        ban_until |-> user.ban_until])
                        ELSE [calls EXCEPT ![t].pc = "check_mute"]
                   [] pc = "check_mute" ->
                        IF user.is_muted /\ user.mute_until # None
                        THEN [calls EXCEPT ![t].pc = "compare_mute"]
                        ELSE [calls EXCEPT ![t].pc = "profanity"]
                   [] pc = "compare_mute" ->
                        IF user.mute_until = None
                        THEN Return(t, [raised |-> "TypeError"])
                        ELSE IF now < user.mute_until
                        THEN Return(t, [allowed |-> FALSE, action |-> "rejected",
                                        reason |-> "User is muted",
                                        mute_until |-> user.mute_until])
                        ELSE [calls EXCEPT ![t].pc = "profanity"]
            /\ UNCHANGED <<users, violations, config, profanity_words,
                           profanity_patterns, now, last>>

\* the position after a detector
AfterDetector(pc) ==
    CASE pc = "profanity" -> "spam"
      [] pc = "spam" -> "rate_limit"
      [] pc = "rate_limit" -> "caps_abuse"
      [] pc = "caps_abuse" -> "track"

\* one detector of the pipeline, with the action and the record of its
\* violation; the call notes the configuration it read
ModerateDetect(T) ==
    \E t \in T :
        LET c == calls[t]
            p == PipelineOf(t)
            q == CASE c.pc = "profanity" -> StepProfanity(p, c.user_id, c.message)
                   [] c.pc = "spam" -> StepSpam(p, c.user_id, c.message)
                   [] c.pc = "rate_limit" -> StepRateLimit(p, c.user_id, c.message)
                   [] c.pc = "caps_abuse" -> StepCapsAbuse(p, c.user_id, c.message)
        IN  /\ c.pc \in {"profanity", "spam", "rate_limit", "caps_abuse"}
            /\ users' = q.users
            /\ violations' = q.violations
            /\ calls' = [calls EXCEPT
                   ![t].vio = q.vio,
                   ![t].actions_taken = q.actions_taken,
                   ![t].observed = @ \cup {config},
                   ![t].pc = AfterDetector(c.pc)]
            /\ UNCHANGED <<config, profanity_words, profanity_patterns, now, last>>

\* the message tracking and the return of moderate_message
ModerateTrack(T) ==
    \E t \in T :
        LET c == calls[t]
            q == UpdateHistory(PipelineOf(t), c.user_id, c.message)
        IN  /\ c.pc = "track"
            /\ users' = q.users
            /\ calls' = Return(t, [allowed |-> Allowed(c.vio),
                                   violations |-> c.vio,
                                   actions_taken |-> c.actions_taken,
                                   user_status |-> q.users[c.user_id]])
            /\ UNCHANGED <<violations, config, profanity_words,
                           profanity_patterns, now, last>>

\* apply_manual_action is entered with a valid action string:
\* user = get_user_status(user_id)
ApplyBegin(T, U, A, D) ==
    \E t \in T, user_id \in U, action \in A, duration \in D :
        /\ calls[t].pc = "idle"
        /\ action \in {"mute", "ban"}
        /\ users' = get_user_status(State, user_id).users
        /\ calls' = [calls EXCEPT ![t] =
               [op |-> "apply_manual_action", pc |-> "flag", user_id |-> user_id,
                action |-> action, duration |-> duration, ret |-> <<>>]]
        /\ UNCHANGED <<violations, config, profanity_words, profanity_patterns,
                       now, last>>

\* user.is_muted = True, or user.is_banned = True
ApplyFlag(T) ==
    \E t \in T :
        LET c == calls[t]
        IN  /\ c.pc = "flag"
            /\ users' = IF c.action = "mute"
                        THEN [users EXCEPT ![c.user_id].is_muted = TRUE]
                        ELSE [users EXCEPT ![c.user_id].is_banned = TRUE]
            /\ calls' = [calls EXCEPT ![t].pc = "expiry"]
            /\ UNCHANGED <<violations, config, profanity_words,
                           profanity_patterns, now, last>>

\* user.mute_until = current_time + timedelta(seconds=duration), or the same
\* for ban_until, and the return
ApplyExpiry(T) ==
    \E t \in T :
        LET c == calls[t]
        IN  /\ c.pc = "expiry"
            /\ users' = IF Overflows(c.duration)
                        THEN users
                        ELSE IF c.action = "mute"
                        THEN [users EXCEPT ![c.user_id].mute_until = now + c.duration]
                        ELSE [users EXCEPT ![c.user_id].ban_until = now + c.duration]
            /\ calls' = Return(t, ~Overflows(c.duration))
            /\ UNCHANGED <<violations, config, profanity_words,
                           profanity_patterns, now, last>>

\* cleanup_expired_punishments is entered: the iteration over users.values()
\* starts
SweepBegin(T) ==
    \E t \in T :
        /\ calls[t].pc = "idle"
        /\ calls' = [calls EXCEPT ![t] =
               [op |-> "cleanup", pc |-> "sweep", todo |-> DOMAIN users,
                size |-> Cardinality(DOMAIN users), ret |-> <<>>]]
        /\ UNCHANGED <<users, violations, config, profanity_words,
                       profanity_patterns, now, last>>

\* one turn of the loop of cleanup_expired_punishments; the iterator raises
\* when the dictionary has changed its size
SweepUser(T) ==
    \E t \in T :
        LET c == calls[t]
        IN  /\ c.pc = "sweep"
            /\ IF Cardinality(DOMAIN users) # c.size
               THEN /\ calls' = Return(t, [raised |-> "RuntimeError"])
                    /\ users' = users
               ELSE IF c.todo = {}
               THEN /\ calls' = Return(t, [returned |-> None])
                    /\ users' = users
               ELSE \E u \in c.todo :
                        /\ users' = [users EXCEPT ![u] = ExpireUser(@)]
                        /\ calls' = [calls EXCEPT ![t].todo = @ \ {u}]
            /\ UNCHANGED <<violations, config, profanity_words,
                           profanity_patterns, now, last>>

\* the settings of a partial configuration, in the order of its keys, each as
\* a partial configuration of its own
MultiUpdate ==
    << [rules |-> [profanity_filter |-> [enabled |-> FALSE]]],
       [rules |-> [caps_abuse |-> [enabled |-> FALSE]]],
       [escalation |-> [enabled |-> FALSE]] >>

RECURSIVE MergeAll(_, _)
MergeAll(cfg, settings) ==
    IF settings = << >>
    THEN cfg
    ELSE MergeAll(deep_update(cfg, Head(settings), << >>), Tail(settings))

\* update_config is entered
UpdateBegin(T, S) ==
    \E t \in T, settings \in S :
        /\ calls[t].pc = "idle"
        /\ calls' = [calls EXCEPT ![t] =
               [op |-> "update_config", pc |-> "merge", settings |-> settings,
                before |-> config, after |-> MergeAll(config, settings),
                ret |-> <<>>]]
        /\ UNCHANGED <<users, violations, config, profanity_words,
                       profanity_patterns, now, last>>

\* deep_update assigns the next setting in place
UpdateMerge(T) ==
    \E t \in T :
        LET c == calls[t]
        IN  /\ c.pc = "merge"
            /\ c.settings # << >>
            /\ config' = deep_update(config, Head(c.settings), << >>)
            /\ calls' = [calls EXCEPT ![t].settings = Tail(@)]
            /\ UNCHANGED <<users, violations, profanity_words,
                           profanity_patterns, now, last>>

\* config.json is written, or the write fails, and update_config returns
UpdateSave(T) ==
    \E t \in T, saved \in BOOLEAN :
        LET c == calls[t]
        IN  /\ c.pc = "merge"
            /\ c.settings = << >>
            /\ calls' = Return(t, saved)
            /\ UNCHANGED <<users, violations, config, profanity_words,
                           profanity_patterns, now, last>>

\* add_profanity_words or remove_profanity_words is entered and changes the
\* word set
WordsBegin(T, W) ==
    \E t \in T, words \in W, op \in {"add_profanity_words", "remove_profanity_words"} :
        /\ calls[t].pc = "idle"
        /\ profanity_words' =
               IF op = "add_profanity_words"
               THEN profanity_words \cup {lower_word(w) : w \in words}
               ELSE profanity_words \ words
        /\ calls' = [calls EXCEPT ![t] =
               [op |-> op, pc |-> "reload", todo |-> {}, ret |-> <<>>]]
        /\ UNCHANGED <<users, violations, config, profanity_patterns, now, last>>

\* load_profanity_filter assigns the basic list and an empty pattern list
ReloadWords(T) ==
    \E t \in T :
        /\ calls[t].pc = "reload"
        /\ profanity_words' = load_profanity_words
        /\ profanity_patterns' = {}
        /\ calls' = [calls EXCEPT ![t].pc = "compile",
                                  ![t].todo = load_profanity_words]
        /\ UNCHANGED <<users, violations, config, now, last>>

\* load_profanity_filter compiles and appends the pattern of the next word
\* of the set, whose order of iteration is not fixed; after the last word
\* the call returns
ReloadCompile(T) ==
    \E t \in T :
        LET c == calls[t]
        IN  /\ c.pc = "compile"
            /\ IF c.todo = {}
               THEN /\ calls' = Return(t, TRUE)
                    /\ profanity_patterns' = profanity_patterns
               ELSE \E word \in c.todo :
                        /\ profanity_patterns' =
                               profanity_patterns \cup {compile_pattern(word)}
                        /\ calls' = [calls EXCEPT ![t].todo = @ \ {word}]
            /\ UNCHANGED <<users, violations, config, profanity_words, now, last>>

\* two threads each moderate one message of the same user
InitModerators == InitWith({default_config})

NextModerators ==
    \/ ModerateBegin(Threads, {"u1"}, {MsgHello, MsgDamn})
    \/ ModerateCheck(Threads)
    \/ ModerateDetect(Threads)
    \/ ModerateTrack(Threads)

SpecModerators == InitModerators /\ [][NextModerators]_vars

\* before the threads start, a moderator punishes the user and time passes
SetupPunish == AllIdle /\ ApplyManualAction({"u1"}, {"mute", "ban"}, {300})

SetupTick == AllIdle /\ Tick(ApiInstants)

\* one thread punishes a user or moderates a message of the user while the
\* other thread sweeps
InitSweeper == InitWith({default_config})

NextSweeper ==
    \/ SetupPunish
    \/ SetupTick
    \/ ApplyBegin({"t1"}, {"u1"}, {"mute", "ban"}, {300})
    \/ ApplyFlag({"t1"})
    \/ ApplyExpiry({"t1"})
    \/ ModerateBegin({"t1"}, {"u1"}, {MsgHello})
    \/ ModerateCheck({"t1"})
    \/ ModerateDetect({"t1"})
    \/ ModerateTrack({"t1"})
    \/ SweepBegin({"t2"})
    \/ SweepUser({"t2"})

SpecSweeper == InitSweeper /\ [][NextSweeper]_vars

\* one thread moderates a message while the other updates the configuration
InitConfigWriter == InitWith({default_config})

NextConfigWriter ==
    \/ ModerateBegin({"t1"}, {"u1"}, {MsgHello, MsgDamnCaps})
    \/ ModerateCheck({"t1"})
    \/ ModerateDetect({"t1"})
    \/ ModerateTrack({"t1"})
    \/ UpdateBegin({"t2"}, {MultiUpdate})
    \/ UpdateMerge({"t2"})
    \/ UpdateSave({"t2"})

SpecConfigWriter == InitConfigWriter /\ [][NextConfigWriter]_vars

\* one thread moderates a message while the other mutates the word list
InitWordWriter == InitWith({default_config})

NextWordWriter ==
    \/ ModerateBegin({"t1"}, {"u1"}, {MsgHello, MsgDamn})
    \/ ModerateCheck({"t1"})
    \/ ModerateDetect({"t1"})
    \/ ModerateTrack({"t1"})
    \/ WordsBegin({"t2"}, WordLists)
    \/ ReloadWords({"t2"})
    \/ ReloadCompile({"t2"})

SpecWordWriter == InitWordWriter /\ [][NextWordWriter]_vars

(***************************************************************************)
(* Reading the record of a call.                                           *)
(***************************************************************************)
IsModerate(l) == l.op = "moderate_message"

\* the call raised instead of returning a decision
Raised(l) == IsModerate(l) /\ "raised" \in DOMAIN l.ret

\* the call returned the bypass decision
Bypassed(l) ==
    /\ IsModerate(l)
    /\ ~Raised(l)
    /\ "reason" \in DOMAIN l.ret
    /\ l.ret.reason = "User has bypass permissions"

\* the call was handed to the plugin's moderate_message
PluginCall(l) == IsModerate(l) /\ ~Raised(l) /\ ~Bypassed(l)

\* the call was rejected by the punishment check
Rejected(l) ==
    PluginCall(l) /\ "action" \in DOMAIN l.ret /\ l.ret.action = "rejected"

\* the call ran the detection pass
ReachedDetection(l) == PluginCall(l) /\ ~Rejected(l)

\* the number of log entries among the first n that are of user u, carry the
\* action a and are younger than 24 hours
CountInWindow(n, u, a) ==
    Cardinality({i \in 1..n : /\ violations[i].user_id = u
                              /\ violations[i].action_taken = a
                              /\ now - violations[i].timestamp < 86400})

(***************************************************************************)
(* C1.  With the profanity rule enabled, every moderate call that runs the *)
(* detection pass on a message holding a configured profane term as one of *)
(* its words, in any letter case and with a/@, e/3, i/1, o/0 substituted,  *)
(* returns a decision that lists profanity and is not allowed.             *)
(* Refuted: a term whose first letter is replaced by @ is not matched.     *)
(***************************************************************************)
Substitutions == { <<"a","@">>, <<"e","3">>, <<"i","1">>, <<"o","0">> }

IsVariantOf(token, word) ==
    /\ Len(token) = Len(word)
    /\ \A k \in 1..Len(word) :
          \/ lower(token[k]) = word[k]
          \/ <<word[k], token[k]>> \in Substitutions

ContainsProfaneTerm(message) ==
    \E k \in DOMAIN split(message), word \in profanity_words :
        IsVariantOf(split(message)[k], word)

C1_ProfaneTermListed ==
    ( /\ ReachedDetection(last)
      /\ config.rules.profanity_filter.enabled
      /\ ContainsProfaneTerm(last.message) )
    => ( /\ \E i \in DOMAIN last.ret.violations : last.ret.violations[i] = "profanity"
         /\ last.ret.allowed = FALSE )

(***************************************************************************)
(* C2.  A decision of the detection pass is not allowed exactly when its   *)
(* violations hold profanity or spam; with caps_abuse and rate_limit alone *)
(* it is allowed.                                                          *)
(***************************************************************************)
C2_AllowedIffNoContentViolation ==
    ReachedDetection(last)
    => ( (last.ret.allowed = FALSE)
         <=> (Range(last.ret.violations) \cap {"profanity", "spam"} # {}) )

\* a message over the rate limit and in capitals was allowed
C2_Witness ==
    /\ ReachedDetection(last)
    /\ Range(last.ret.violations) = {"rate_limit", "caps_abuse"}
    /\ last.ret.allowed = TRUE

(***************************************************************************)
(* C3.  A call of the plugin's moderate_message for a user whose ban is    *)
(* set and not expired returns the rejection "banned" with the ban expiry, *)
(* also when a mute is current; otherwise, for a user whose mute is set    *)
(* and not expired, it returns the rejection "muted" with the mute expiry. *)
(***************************************************************************)
C3_BanThenMuteReported ==
    [][ \A u \in DOMAIN users :
          (PluginCall(last') /\ last'.user_id = u)
          => IF users[u].is_banned /\ users[u].ban_until # None
                /\ now < users[u].ban_until
             THEN last'.ret = [allowed |-> FALSE, action |-> "rejected",
                               reason |-> "User is banned",
                               ban_until |-> users[u].ban_until]
             ELSE IF users[u].is_muted /\ users[u].mute_until # None
                     /\ now < users[u].mute_until
             THEN last'.ret = [allowed |-> FALSE, action |-> "rejected",
                               reason |-> "User is muted",
                               mute_until |-> users[u].mute_until]
             ELSE TRUE ]_vars

\* a call rejected as banned while the user's mute is current too
C3_Witness ==
    /\ Rejected(last)
    /\ last.ret.reason = "User is banned"
    /\ users[last.user_id].is_muted
    /\ users[last.user_id].mute_until # None
    /\ now < users[last.user_id].mute_until

(***************************************************************************)
(* C4.  A moderate call rejected for a mute or a ban leaves the users (the *)
(* violation count, the history, the last message time, the punishment     *)
(* fields) and the violation log as they were and takes no action.         *)
(***************************************************************************)
C4_RejectedCallChangesNothing ==
    [][ Rejected(last')
        => (users' = users /\ violations' = violations /\ last'.logged = <<>>) ]_vars

\* a profane message of a muted or banned user was rejected
C4_Witness ==
    /\ Rejected(last)
    /\ last.message = MsgDamn
    /\ users[last.user_id].recent_messages = <<>>
    /\ violations = <<>>

(***************************************************************************)
(* C5.  With the whitelist enabled and a role of the caller among the      *)
(* moderator roles, moderate returns the bypass decision and changes       *)
(* nothing: no user record is made, nothing is logged or recorded.         *)
(***************************************************************************)
C5_BypassChangesNothing ==
    [][ ( /\ IsModerate(last')
          /\ "whitelist" \in DOMAIN config
          /\ config.whitelist.enabled
          /\ last'.user_roles \cap config.whitelist.moderator_roles # {} )
        => ( /\ last'.ret = [allowed |-> TRUE,
                             reason |-> "User has bypass permissions",
                             violations |-> <<>>, actions_taken |-> <<>>]
             /\ users' = users
             /\ violations' = violations
             /\ last'.logged = <<>> ) ]_vars

\* a profane message of an untracked user was let through
C5_Witness ==
    /\ Bypassed(last)
    /\ last.message = MsgDamn
    /\ last.user_id \notin DOMAIN users

(***************************************************************************)
(* C6.  With escalation enabled, a moderate call that records a violation  *)
(* of a user who already had warn_to_mute_threshold warn violations in the *)
(* last 24 hours lists mute among its actions_taken.                       *)
(* Refuted: the mute of the escalation is applied but not listed.          *)
(***************************************************************************)
C6_EscalationMuteListed ==
    ( /\ ReachedDetection(last)
      /\ config.escalation.enabled
      /\ Len(last.ret.violations) > 0
      /\ CountInWindow(Len(violations) - Len(last.ret.violations),
                       last.user_id, "warn")
            >= config.escalation.warn_to_mute_threshold )
    => \E i \in DOMAIN last.ret.actions_taken : last.ret.actions_taken[i] = "mute"

(***************************************************************************)
(* C7.  With escalation enabled, a moderate call that records a violation  *)
(* and leaves the user with warn_to_mute_threshold or more warn violations *)
(* of the last 24 hours, the new ones counted, leaves the user muted until *)
(* now + 300 and says so in the returned status; and a message of a user   *)
(* whose mute has not expired (and who is not banned) is rejected as muted.*)
(***************************************************************************)
C7_MutedByThisCall ==
    ( /\ ReachedDetection(last)
      /\ config.escalation.enabled
      /\ Len(last.ret.violations) > 0
      /\ CountInWindow(Len(violations), last.user_id, "warn")
            >= config.escalation.warn_to_mute_threshold )
    => ( /\ users[last.user_id].is_muted
         /\ users[last.user_id].mute_until = now + 300
         /\ last.ret.user_status.is_muted
         /\ last.ret.user_status.mute_until = now + 300 )

C7_EscalationMutesAtOnce ==
    [][ /\ C7_MutedByThisCall'
        /\ \A u \in DOMAIN users :
              ( /\ PluginCall(last')
                /\ last'.user_id = u
                /\ users[u].is_muted
                /\ users[u].mute_until # None
                /\ now < users[u].mute_until
                /\ ~(users[u].is_banned /\ users[u].ban_until # None
                     /\ now < users[u].ban_until) )
              => ( /\ Rejected(last')
                   /\ last'.ret.reason = "User is muted"
                   /\ users'[u].is_muted ) ]_vars

\* the message after the third warning was rejected as muted
C7_Witness ==
    /\ Rejected(last)
    /\ last.ret.reason = "User is muted"
    /\ violations # <<>>
    /\ violations[Len(violations)].user_id = last.user_id
    /\ violations[Len(violations)].action_taken = "warn"
    /\ CountInWindow(Len(violations), last.user_id, "warn")
          = config.escalation.warn_to_mute_threshold
    /\ last.ret.mute_until = violations[Len(violations)].timestamp + 300

(***************************************************************************)
(* C8.  Each escalation evaluation, one per recorded violation, counts the *)
(* violations of that user of the last 24 hours by their action and takes  *)
(* at most one action: mute for 300 s if the warns reach their threshold,  *)
(* otherwise kick if the mutes reach theirs, otherwise ban for 3600 s if   *)
(* the kicks reach theirs, otherwise none.  Violations of other users or   *)
(* older than 24 hours do not count.                                       *)
(***************************************************************************)
EscalationReasons ==
    {"Escalation: too many warnings", "Escalation: too many mutes",
     "Escalation: too many kicks"}

\* the action the evaluation after the q-th log entry is to take
ExpectedEscalation(u, q) ==
    IF CountInWindow(q, u, "warn") >= config.escalation.warn_to_mute_threshold
    THEN << LogLine("info", u, "mute", 300, "Escalation: too many warnings") >>
    ELSE IF CountInWindow(q, u, "mute") >= config.escalation.mute_to_kick_threshold
    THEN << LogLine("info", u, "kick", None, "Escalation: too many mutes") >>
    ELSE IF CountInWindow(q, u, "kick") >= config.escalation.kick_to_ban_threshold
    THEN << LogLine("info", u, "ban", 3600, "Escalation: too many kicks") >>
    ELSE << >>

RECURSIVE ExpectedEscalations(_, _, _)
ExpectedEscalations(u, q, n) ==
    IF q > n
    THEN << >>
    ELSE ExpectedEscalation(u, q) \o ExpectedEscalations(u, q + 1, n)

EscalationsOf(l) == SelectSeq(l.logged, LAMBDA line : line.reason \in EscalationReasons)

C8_EscalationByPriority ==
    (ReachedDetection(last) /\ config.escalation.enabled)
    => EscalationsOf(last) =
          ExpectedEscalations(last.user_id,
                              Len(violations) - Len(last.ret.violations) + 1,
                              Len(violations))

\* a violation was recorded and not escalated although the log holds
\* warn_to_mute_threshold warns, some of them of another user or too old
C8_Witness ==
    /\ ReachedDetection(last)
    /\ Len(last.ret.violations) > 0
    /\ EscalationsOf(last) = << >>
    /\ Cardinality({i \in DOMAIN violations : violations[i].action_taken = "warn"})
          >= config.escalation.warn_to_mute_threshold

(***************************************************************************)
(* C9.  No user is muted and banned at once.                               *)
(* Refuted: a manual mute followed by a manual ban sets both flags.        *)
(***************************************************************************)
C9_MutedXorBanned ==
    \A u \in DOMAIN users : ~(users[u].is_muted /\ users[u].is_banned)

(***************************************************************************)
(* C10.  For every user, is_muted holds exactly when mute_until is set,    *)
(* and is_banned exactly when ban_until is set.                            *)
(* Refuted: a mute whose expiry cannot be computed sets the flag alone.    *)
(***************************************************************************)
C10_FlagIffExpiry ==
    \A u \in DOMAIN users :
        /\ users[u].is_muted <=> (users[u].mute_until # None)
        /\ users[u].is_banned <=> (users[u].ban_until # None)

\* the log lines of a call
Logged(l) == IF "logged" \in DOMAIN l THEN l.logged ELSE << >>

\* the call applied the action a to the user u, successfully or not
ActionLoggedFor(l, u, a) ==
    \E i \in DOMAIN Logged(l) : Logged(l)[i].user_id = u /\ Logged(l)[i].action = a

(***************************************************************************)
(* C11.  A sweep at a time at or after the expiry of a user's mute (ban)   *)
(* leaves the user not muted (not banned) with no expiry; no call other    *)
(* than one that applies a mute (ban) to that user changes this; and       *)
(* get_user_status reports such a user as not muted (not banned) with a    *)
(* null expiry.                                                            *)
(***************************************************************************)
C11_SweptPunishmentStaysLifted ==
    [][ \A u \in DOMAIN users :
          /\ ( /\ last'.op = "cleanup"
               /\ users[u].is_muted /\ users[u].mute_until # None
               /\ now >= users[u].mute_until )
             => (~users'[u].is_muted /\ users'[u].mute_until = None)
          /\ ( /\ last'.op = "cleanup"
               /\ users[u].is_banned /\ users[u].ban_until # None
               /\ now >= users[u].ban_until )
             => (~users'[u].is_banned /\ users'[u].ban_until = None)
          /\ ( /\ ~users[u].is_muted /\ users[u].mute_until = None
               /\ ~ActionLoggedFor(last', u, "mute") )
             => ( /\ ~users'[u].is_muted /\ users'[u].mute_until = None
                  /\ (last'.op = "get_user_status" /\ last'.user_id = u)
                     => (~last'.ret.is_muted /\ last'.ret.mute_until = << >>) )
          /\ ( /\ ~users[u].is_banned /\ users[u].ban_until = None
               /\ ~ActionLoggedFor(last', u, "ban") )
             => ( /\ ~users'[u].is_banned /\ users'[u].ban_until = None
                  /\ (last'.op = "get_user_status" /\ last'.user_id = u)
                     => (~last'.ret.is_banned /\ last'.ret.ban_until = << >>) )
      ]_vars

\* the status of a user is read after a spam mute of 300 s has run out and
\* has been swept: the user is reported as not muted
C11_Witness ==
    /\ last.op = "get_user_status"
    /\ ~last.ret.is_muted
    /\ last.ret.mute_until = << >>
    /\ \E i \in DOMAIN violations :
          /\ violations[i].user_id = last.user_id
          /\ violations[i].action_taken = "mute"
          /\ now >= violations[i].timestamp + 300

(***************************************************************************)
(* C12.  A sweep clears the mute and the ban of every user whose expiry is *)
(* at or before now, both fields together, and changes nothing else: not   *)
(* the other punishments, the violation counts, the histories, the last    *)
(* message times, the violation log or the set of users; a second sweep at *)
(* the same instant changes nothing.                                       *)
(***************************************************************************)
C12_SweepClearsExactlyExpired ==
    [][ last'.op = "cleanup"
        => /\ violations' = violations
           /\ DOMAIN users' = DOMAIN users
           /\ \A u \in DOMAIN users :
                 /\ IF users[u].mute_until # None /\ users[u].mute_until <= now
                    THEN ~users'[u].is_muted /\ users'[u].mute_until = None
                    ELSE /\ users'[u].is_muted = users[u].is_muted
                         /\ users'[u].mute_until = users[u].mute_until
                 /\ IF users[u].ban_until # None /\ users[u].ban_until <= now
                    THEN ~users'[u].is_banned /\ users'[u].ban_until = None
                    ELSE /\ users'[u].is_banned = users[u].is_banned
                         /\ users'[u].ban_until = users[u].ban_until
                 /\ users'[u].user_id = users[u].user_id
                 /\ users'[u].violation_count = users[u].violation_count
                 /\ users'[u].recent_messages = users[u].recent_messages
                 /\ users'[u].last_message_time = users[u].last_message_time
           /\ cleanup_expired_punishments(users') = users' ]_vars

\* a sweep at the very instant a mute expires lifted it and kept a ban that
\* has not expired
C12_Witness ==
    /\ last.op = "cleanup"
    /\ \E u \in DOMAIN users :
          /\ ~users[u].is_muted
          /\ users[u].is_banned /\ users[u].ban_until # None
          /\ now < users[u].ban_until
          /\ \E i \in DOMAIN violations :
                /\ violations[i].user_id = u
                /\ violations[i].action_taken = "mute"
                /\ now = violations[i].timestamp + 300

(***************************************************************************)
(* C13.  No call (moderate, apply_manual_action, sweep, update_config,     *)
(* get_user_status, get_stats) removes a user or lowers the user's         *)
(* violation_count.                                                        *)
(***************************************************************************)
C13_ViolationCountNeverDecreases ==
    [][ \A u \in DOMAIN users :
          /\ u \in DOMAIN users'
          /\ users'[u].violation_count >= users[u].violation_count ]_vars

\* the configuration was updated, or expired punishments swept, for a user
\* with violations who had been muted
C13_Witness ==
    /\ last.op \in {"cleanup", "update_config"}
    /\ \E u \in DOMAIN users :
          /\ users[u].violation_count >= 2
          /\ ~users[u].is_muted
          /\ \E i \in DOMAIN violations :
                violations[i].user_id = u /\ violations[i].action_taken = "mute"

\* the sum of the values of a dictionary of numbers
RECURSIVE SumValues(_)
SumValues(d) ==
    IF DOMAIN d = {}
    THEN 0
    ELSE LET k == CHOOSE x \in DOMAIN d : TRUE
         IN  d[k] + SumValues([x \in DOMAIN d \ {k} |-> d[x]])

\* the number of entries of the violation log for the user u
EntriesOf(u) == Cardinality({i \in DOMAIN violations : violations[i].user_id = u})

(***************************************************************************)
(* C14.  In every state each user's violation_count is the number of log   *)
(* entries of that user, every logged user is tracked, and the statistics  *)
(* returned by get_stats have total_violations equal to the length of the  *)
(* log and to the sum of the counts per type.                              *)
(***************************************************************************)
C14_CountMatchesLog ==
    /\ \A u \in DOMAIN users : users[u].violation_count = EntriesOf(u)
    /\ \A i \in DOMAIN violations : violations[i].user_id \in DOMAIN users
    /\ last.op = "get_stats"
       => /\ last.ret.total_violations = Len(violations)
          /\ last.ret.total_violations = SumValues(last.ret.violation_types)

\* statistics over a log of three violations of two types
C14_Witness ==
    /\ last.op = "get_stats"
    /\ last.ret.total_violations = 3
    /\ DOMAIN last.ret.violation_types = {"profanity", "spam"}
    /\ \E u \in DOMAIN users : users[u].violation_count = 3

(***************************************************************************)
(* C15.  apply_manual_action with a string that is not a value of          *)
(* ModerationAction returns False and changes nothing: no user record is   *)
(* made or changed, nothing is appended to the violation log, no action    *)
(* is logged.                                                              *)
(***************************************************************************)
C15_InvalidActionChangesNothing ==
    [][ (last'.op = "apply_manual_action" /\ last'.action \notin ModerationAction)
        => ( /\ last'.ret = FALSE
             /\ users' = users
             /\ violations' = violations
             /\ last'.logged = << >> ) ]_vars

\* an unknown action was refused for a user who has no record
C15_Witness ==
    /\ last.op = "apply_manual_action"
    /\ last.action = "invalid_action"
    /\ last.ret = FALSE
    /\ last.user_id \notin DOMAIN users

\* the last n elements of a sequence
LastN(s, n) == IF Len(s) <= n THEN s ELSE SubSeq(s, Len(s) - n + 1, Len(s))

\* the history of the user u before a call, empty for a user without record
HistoryOf(u) == IF u \in DOMAIN users THEN users[u].recent_messages ELSE << >>

(***************************************************************************)
(* C16.  The history of a user never holds more than 10 messages; a        *)
(* moderate call that passes the punishment check appends its message and  *)
(* keeps the last 10, dropping the oldest; every other call, a rejected    *)
(* moderate call included, leaves every history as it was.  So a history   *)
(* is the last 10 messages of the user that passed the punishment check,   *)
(* in their order of arrival.                                              *)
(***************************************************************************)
C16_HistoryIsLastTen ==
    [][ /\ \A u \in DOMAIN users' : Len(users'[u].recent_messages) <= 10
        /\ \A u \in DOMAIN users' :
              IF ReachedDetection(last') /\ last'.user_id = u
              THEN users'[u].recent_messages
                      = LastN(Append(HistoryOf(u), last'.message), 10)
              ELSE users'[u].recent_messages = HistoryOf(u) ]_vars

\* an eleventh message in a row was appended to a full history
C16_Witness ==
    /\ ReachedDetection(last)
    /\ "rate_limit" \in Range(last.ret.violations)
    /\ Len(users[last.user_id].recent_messages) = 10
    /\ users[last.user_id].recent_messages[10] = last.message
    /\ last.message = MsgCaps
    /\ users[last.user_id].recent_messages[9] = MsgHello

\* the message is repetitive in itself: the rules of check_spam that do not
\* look at the history
RepetitiveTokens(message) ==
    LET words == split(message)
    IN  \/ Len(words) > 3 /\ Cardinality(Range(words)) * 10 < 3 * Len(words)
        \/ Len(words) <= 3 /\ Cardinality(Range(words)) = 1 /\ Len(words) > 1

(***************************************************************************)
(* C17.  In a moderate call that reaches the detection pass, a message     *)
(* that is not in the user's history of the earlier calls (and is not      *)
(* repetitive in itself) is not flagged as spam; after the call the        *)
(* message is the newest entry of the history and last_message_time is the *)
(* time of the call, with or without violations.                           *)
(***************************************************************************)
C17_HistoryUpdatedAfterDetection ==
    [][ ReachedDetection(last')
        => LET u == last'.user_id
               m == last'.message
               h == users'[u].recent_messages
           IN  /\ (m \notin Range(HistoryOf(u)) /\ ~RepetitiveTokens(m))
                  => "spam" \notin Range(last'.ret.violations)
               /\ Len(h) > 0
               /\ h[Len(h)] = m
               /\ users'[u].last_message_time = now ]_vars

\* a profane message new to a history that is not empty was flagged as
\* profanity only, and is the newest entry
C17_Witness ==
    /\ ReachedDetection(last)
    /\ last.ret.violations = << "profanity" >>
    /\ LET h == users[last.user_id].recent_messages
       IN  /\ Len(h) >= 2
           /\ h[Len(h)] = last.message
           /\ \A i \in 1..(Len(h) - 1) : h[i] # last.message
    /\ users[last.user_id].last_message_time = now
    /\ now > 0

(***************************************************************************)
(* C18.  With the spam rule enabled, a moderate call of a user who holds   *)
(* no current mute or ban, with a message that is in the user's history,   *)
(* reaches the detection pass, lists spam and does not allow the message.  *)
(***************************************************************************)
C18_RepeatedMessageIsSpam ==
    [][ \A u \in DOMAIN users :
          ( /\ PluginCall(last')
            /\ last'.user_id = u
            /\ config.rules.spam_detection.enabled
            /\ ~BanIsActive(users[u])
            /\ ~MuteIsActive(users[u])
            /\ last'.message \in Range(users[u].recent_messages) )
          => ( /\ ReachedDetection(last')
               /\ "spam" \in Range(last'.ret.violations)
               /\ last'.ret.allowed = FALSE ) ]_vars

\* a clean message sent a second time was flagged as spam only
C18_Witness ==
    /\ ReachedDetection(last)
    /\ last.message = MsgHello
    /\ last.ret.violations = << "spam" >>
    /\ last.ret.allowed = FALSE
    /\ users[last.user_id].recent_messages = << MsgHello, MsgHello >>

\* the order of the detectors, the rule of the configuration that gates each
\* and the action each takes
DetectorOrder == << "profanity", "spam", "rate_limit", "caps_abuse" >>

RankOf(t) == CHOOSE k \in DOMAIN DetectorOrder : DetectorOrder[k] = t

RuleOf(t) ==
    CASE t = "profanity" -> "profanity_filter"
      [] t = "spam" -> "spam_detection"
      [] t = "rate_limit" -> "rate_limiting"
      [] t = "caps_abuse" -> "caps_abuse"

FixedAction(t) ==
    CASE t = "profanity" -> "warn"
      [] t = "spam" -> "mute"
      [] t = "rate_limit" -> "mute"
      [] t = "caps_abuse" -> "warn"

(***************************************************************************)
(* C19.  The violations of a decision are profanity, spam, rate_limit and  *)
(* caps_abuse in this order, each at most once and only if its rule is     *)
(* enabled; the entries the call appended to the violation log carry the   *)
(* same types in the same order.                                           *)
(***************************************************************************)
C19_DetectorOrder ==
    ReachedDetection(last)
    => LET v == last.ret.violations
           n == Len(violations) - Len(v)
       IN  /\ \A i \in DOMAIN v :
                 /\ v[i] \in Range(DetectorOrder)
                 /\ config.rules[RuleOf(v[i])].enabled
           /\ \A i, j \in DOMAIN v : i < j => RankOf(v[i]) < RankOf(v[j])
           /\ n >= 0
           /\ \A i \in DOMAIN v :
                 /\ violations[n + i].violation_type = v[i]
                 /\ violations[n + i].user_id = last.user_id

\* a decision that lists three detectors, caps_abuse after profanity
C19_Witness ==
    /\ ReachedDetection(last)
    /\ last.ret.violations = << "profanity", "spam", "caps_abuse" >>

(***************************************************************************)
(* C20.  A decision of the detection pass lists as many actions as         *)
(* violations, the i-th action being the one of the i-th violation's rule  *)
(* (profanity warn, spam mute, rate_limit mute, caps_abuse warn); the call *)
(* raises the user's violation_count and the length of the violation log   *)
(* by the number of listed violations.                                     *)
(***************************************************************************)
C20_OneActionPerViolation ==
    [][ ReachedDetection(last')
        => LET u == last'.user_id
               v == last'.ret.violations
               a == last'.ret.actions_taken
               before == IF u \in DOMAIN users THEN users[u].violation_count ELSE 0
           IN  /\ Len(a) = Len(v)
               /\ \A i \in DOMAIN v : a[i] = FixedAction(v[i])
               /\ users'[u].violation_count = before + Len(v)
               /\ Len(violations') = Len(violations) + Len(v) ]_vars

\* one message fired three detectors
C20_Witness ==
    /\ ReachedDetection(last)
    /\ Len(last.ret.violations) = 3
    /\ last.ret.actions_taken = << "warn", "mute", "warn" >>
    /\ users[last.user_id].violation_count >= 4

(***************************************************************************)
(* C21.  With rate limiting enabled and a limit of L messages per minute,  *)
(* a user who has sent more than L distinct clean messages, all at one     *)
(* instant, has a rate_limit violation in the log.                         *)
(* Refuted: with a limit above the capacity of the history the rule never  *)
(* fires.                                                                  *)
(***************************************************************************)
C21_BurstIsRateLimited ==
    ( /\ config.rules.rate_limiting.enabled
      /\ now = 0
      /\ BurstSent > config.rules.rate_limiting.max_messages_per_minute )
    => \E i \in DOMAIN violations :
          /\ violations[i].user_id = "u1"
          /\ violations[i].violation_type = "rate_limit"

\* the number of upper-case letters of a message
UpperCount(m) == Cardinality({i \in 1..Len(m) : isupper(m[i])})

(***************************************************************************)
(* C22.  A decision of the detection pass lists caps_abuse exactly when    *)
(* the caps rule is enabled, the message has at least min_message_length   *)
(* characters and upper-case letters * 100 > max_caps_percentage * length. *)
(* Refuted: 11 capitals among 20 characters are flagged under a threshold  *)
(* of 55.                                                                  *)
(***************************************************************************)
C22_CapsAbuseFiresIff ==
    ReachedDetection(last)
    => LET m == last.message
           rule == config.rules.caps_abuse
       IN  ("caps_abuse" \in Range(last.ret.violations))
           <=> ( /\ rule.enabled
                 /\ Len(m) >= rule.min_message_length
                 /\ UpperCount(m) * 100 > rule.max_caps_percentage * Len(m) )

(***************************************************************************)
(* C23.  After add_profanity_words(W) has returned true every word of W,   *)
(* lower-cased, is in the profanity word set, and after                    *)
(* remove_profanity_words(W) has returned true no word of W is in it.      *)
(* Refuted: the reload at the end of both calls assigns the basic list.    *)
(***************************************************************************)
C23_WordListIsMutable ==
    /\ (last.op = "add_profanity_words" /\ last.ret)
       => \A w \in last.words : lower_word(w) \in profanity_words
    /\ (last.op = "remove_profanity_words" /\ last.ret)
       => \A w \in last.words : w \notin profanity_words

\* the settings of a configuration, as paths from its root
SectionPaths(section, path) == {Append(path, k) : k \in DOMAIN section}

LeafPaths(cfg) ==
    UNION { UNION {SectionPaths(cfg.rules[r], <<"rules", r>>) : r \in DOMAIN cfg.rules},
            SectionPaths(cfg.escalation, <<"escalation">>),
            IF "whitelist" \in DOMAIN cfg
            THEN SectionPaths(cfg.whitelist, <<"whitelist">>)
            ELSE {} }

\* what a dictionary holds at a path
RECURSIVE ValueAt(_, _)
ValueAt(dict, path) ==
    IF path = << >> THEN dict ELSE ValueAt(dict[Head(path)], Tail(path))

\* the partial configuration names the setting at the path
RECURSIVE Names(_, _)
Names(partial, path) ==
    \/ path = << >>
    \/ /\ Head(path) \in DOMAIN partial
       /\ Names(partial[Head(path)], Tail(path))

\* the configuration after is the one before with the named settings replaced
MergedInto(before, partial, after) ==
    /\ LeafPaths(after) = LeafPaths(before)
    /\ \A p \in LeafPaths(before) :
          ValueAt(after, p) = IF Names(partial, p)
                              THEN ValueAt(partial, p)
                              ELSE ValueAt(before, p)

(***************************************************************************)
(* C24.  A call of update_config returns true and leaves the configuration *)
(* with exactly the named settings replaced, every other setting kept.     *)
(* Refuted: when config.json cannot be written the call returns false,     *)
(* with the merge already done.                                            *)
(***************************************************************************)
C24_UpdateConfigMerges ==
    [][ last'.op = "update_config"
        => /\ last'.ret = TRUE
           /\ MergedInto(config, last'.config_updates, config') ]_vars

\* the users on the bypass list of the configuration
BypassUsers ==
    IF "whitelist" \in DOMAIN config /\ "bypass_users" \in DOMAIN config.whitelist
    THEN config.whitelist.bypass_users
    ELSE << >>

(***************************************************************************)
(* C25.  A moderate call for a user on the bypass list returns allowed     *)
(* with no violation and no action, and after a whitelist_user call the    *)
(* user is on the list at most once.                                       *)
(* Refuted: the pipeline never reads the bypass list, so a whitelisted     *)
(* user's profane message is flagged and recorded.                         *)
(***************************************************************************)
C25_WhitelistedUserBypasses ==
    /\ (IsModerate(last) /\ last.user_id \in Range(BypassUsers))
       => /\ last.ret.allowed
          /\ last.ret.violations = << >>
          /\ last.ret.actions_taken = << >>
    /\ last.op = "whitelist_user"
       => Cardinality({i \in DOMAIN BypassUsers : BypassUsers[i] = last.user_id}) <= 1

\* the state of a plugin that has seen no call
FreshState ==
    [users |-> [u \in {} |-> UserStatus(u)], violations |-> <<>>, logged |-> <<>>]

\* what the calls of two threads leave and return when the call of thread a
\* runs to its end before the call of thread b starts
SerialOutcome(a, b) ==
    LET ra == moderate_message(FreshState, calls[a].user_id, calls[a].message)
        rb == moderate_message(ra.st, calls[b].user_id, calls[b].message)
    IN  [users |-> rb.st.users, violations |-> rb.st.violations,
         ret |-> [t \in {a, b} |-> IF t = a THEN ra.ret ELSE rb.ret]]

\* what the calls of the two threads have left and returned
Outcome ==
    [users |-> users, violations |-> violations,
     ret |-> [t \in Threads |-> calls[t].ret]]

BothModerated ==
    \A t \in Threads : calls[t].pc = "done" /\ calls[t].op = "moderate_message"

(***************************************************************************)
(* C26.  When two threads have each moderated a message of the same user,  *)
(* the user map, the violation log and the two results are those of one of *)
(* the two serial orders of the calls.                                     *)
(* Refuted: the detectors of both calls can run before either call tracks  *)
(* its message.                                                            *)
(***************************************************************************)
C26_ModerateCallsSerialize ==
    (BothModerated /\ calls["t1"].user_id = calls["t2"].user_id)
    => Outcome \in {SerialOutcome("t1", "t2"), SerialOutcome("t2", "t1")}

\* flag and expiry of every user agree
FlagsAgree ==
    \A u \in DOMAIN users :
        /\ users[u].is_muted <=> users[u].mute_until # None
        /\ users[u].is_banned <=> users[u].ban_until # None

AllReturned == \A t \in Threads : calls[t].pc \in {"idle", "done"}

\* the punishment of a manual action of a thread that returned True is in force
AppliedInForce(t) ==
    LET c == calls[t]
        user == users[c.user_id]
    IN  (c.pc = "done" /\ c.op = "apply_manual_action" /\ c.ret = TRUE)
        => IF c.action = "mute"
           THEN user.is_muted /\ user.mute_until = now + c.duration
           ELSE user.is_banned /\ user.ban_until = now + c.duration

\* the punishment check of the moderate call of the thread did not raise
CheckDidNotRaise(t) ==
    (calls[t].pc = "done" /\ calls[t].op = "moderate_message")
    => "raised" \notin DOMAIN calls[t].ret

(***************************************************************************)
(* C27.  When a sweep and a manual action or a moderate call on the same   *)
(* user have both returned, flag and expiry of the user agree, the         *)
(* punishment the manual action applied is in force with its expiry, and   *)
(* the punishment check has not read an expiry the sweep had cleared.      *)
(* Refuted: the manual action sets the flag, the sweep clears flag and     *)
(* expiry of the expired punishment, the manual action sets the expiry.    *)
(***************************************************************************)
C27_SweepLeavesUserConsistent ==
    (AllReturned /\ calls["t2"].pc = "done")
    => /\ FlagsAgree
       /\ AppliedInForce("t1")
       /\ CheckDidNotRaise("t1")

\* the configurations a reader may see while thread w updates: the one
\* before the update and the merged one
Snapshots(w) ==
    IF calls[w].pc = "idle" THEN {config} ELSE {calls[w].before, calls[w].after}

(***************************************************************************)
(* C28.  The configurations a moderate call reads while update_config      *)
(* changes several settings are one and the same, and it is the            *)
(* configuration before the update or the merged one.                      *)
(* Refuted: the settings are assigned in place one after the other.        *)
(***************************************************************************)
C28_ReadersSeeOneSnapshot ==
    calls["t1"].pc # "idle"
    => /\ Cardinality(calls["t1"].observed) <= 1
       /\ calls["t1"].observed \subseteq Snapshots("t2")

\* the profanity step of the call of the thread has run
PastProfanity(t) ==
    /\ calls[t].pc \in {"spam", "rate_limit", "caps_abuse", "track", "done"}
    /\ calls[t].pc = "done" => "violations" \in DOMAIN calls[t].ret

(***************************************************************************)
(* C29.  A word of the list before and after a mutation of the word list   *)
(* is detected by a profanity detection that runs during the mutation.     *)
(* Refuted: the reload assigns an empty pattern list and fills it word by  *)
(* word.                                                                   *)
(***************************************************************************)
C29_PatternRebuildIsAtomic ==
    ( /\ calls["t1"].pc # "idle"
      /\ PastProfanity("t1")
      /\ calls["t1"].message = MsgDamn
      /\ config.rules.profanity_filter.enabled )
    => "profanity" \in Range(calls["t1"].vio)

LastMessageTimeOf(u) ==
    IF u \in DOMAIN users THEN users[u].last_message_time ELSE 0

(***************************************************************************)
(* C31.  A moderate call that reaches the detection pass reports           *)
(* rate_limit exactly when the rule is enabled, the history of the user    *)
(* held at least max_messages_per_minute and at least 3 messages at the    *)
(* call, and less than 60 seconds have passed since last_message_time.     *)
(***************************************************************************)
C31_RateLimitFiresIff ==
    [][ ReachedDetection(last')
        => LET u == last'.user_id
               rule == config.rules.rate_limiting
           IN  ("rate_limit" \in Range(last'.ret.violations))
               <=> ( /\ rule.enabled
                     /\ Len(HistoryOf(u)) >= rule.max_messages_per_minute
                     /\ Len(HistoryOf(u)) >= 3
                     /\ now' - LastMessageTimeOf(u) < 60 ) ]_vars

\* a message was reported as rate_limit, under a limit below the length of
\* the history
C31_Witness ==
    /\ ReachedDetection(last)
    /\ "rate_limit" \in Range(last.ret.violations)
    /\ config.rules.rate_limiting.max_messages_per_minute
           < Len(HistoryOf(last.user_id))

(***************************************************************************)
(* C32.  With the spam rule enabled, check_spam returns true exactly when  *)
(* the message is an entry of the user's history, or it has more than 3    *)
(* tokens and distinct tokens * 10 < 3 * tokens, or it has 2 or 3 tokens,  *)
(* all of them equal.                                                      *)
(***************************************************************************)
C32_CheckSpamIff ==
    (last.op = "check_spam" /\ config.rules.spam_detection.enabled)
    => LET m == last.message
           words == split(m)
           distinct == Cardinality(Range(words))
       IN  last.ret
           <=> \/ \E i \in DOMAIN HistoryOf(last.user_id) :
                     HistoryOf(last.user_id)[i] = m
               \/ Len(words) > 3 /\ distinct * 10 < 3 * Len(words)
               \/ Len(words) \in {2, 3} /\ distinct = 1

\* ten tokens, three of them distinct, and not in the history that holds
\* other messages: not spam
C32_Witness ==
    /\ last.op = "check_spam"
    /\ config.rules.spam_detection.enabled
    /\ last.message = MsgTenThree
    /\ HistoryOf(last.user_id) # << >>
    /\ ~last.ret

(***************************************************************************)
(* C33.  Under the built-in default configuration, a moderate call with a  *)
(* roles list that is not empty returns a decision: the bypass decision or *)
(* the result of the pipeline.                                             *)
(* Refuted: the default configuration has no whitelist section, and the    *)
(* bypass check raises KeyError.                                           *)
(***************************************************************************)
C33_RolesUnderDefaultsReturn ==
    (IsModerate(last) /\ last.user_roles # {} /\ config = default_config)
    => /\ ~Raised(last)
       /\ "allowed" \in DOMAIN last.ret

(***************************************************************************)
(* C34.  Where only messages are moderated, every entry of the violation   *)
(* log carries the action warn or mute and no moderator, and no user is    *)
(* banned or has a ban expiry, for a kick_to_ban_threshold of 1 as well.   *)
(***************************************************************************)
C34_PipelineNeverBans ==
    /\ config.escalation.kick_to_ban_threshold >= 1
    /\ \A i \in DOMAIN violations :
          /\ violations[i].action_taken \in {"warn", "mute"}
          /\ violations[i].moderator = None
    /\ \A u \in DOMAIN users :
          ~users[u].is_banned /\ users[u].ban_until = None

\* the escalation kicked a user after two mutes, under a threshold of one
\* kick for a ban
C34_Witness ==
    /\ ReachedDetection(last)
    /\ config.escalation.kick_to_ban_threshold = 1
    /\ ActionLoggedFor(last, last.user_id, "kick")
    /\ ~users[last.user_id].is_banned

(***************************************************************************)
(* C35.  With the escalation enabled, a moderate call that reports a       *)
(* violation of a user who has warn_to_mute_threshold or more warnings of  *)
(* the last 24 hours in the log leaves the user muted until 300 seconds    *)
(* after the call, and applies no kick and no ban.                         *)
(***************************************************************************)
C35_WarnedUserIsMutedAgain ==
    [][ ( /\ ReachedDetection(last')
          /\ Len(last'.ret.violations) > 0
          /\ config.escalation.enabled
          /\ CountInWindow(Len(violations), last'.user_id, "warn")
                 >= config.escalation.warn_to_mute_threshold )
        => LET u == last'.user_id
           IN  /\ users'[u].is_muted
               /\ users'[u].mute_until = now' + 300
               /\ ~ActionLoggedFor(last', u, "kick")
               /\ ~ActionLoggedFor(last', u, "ban") ]_vars

\* a user with three warnings and two mutes of the day in the log was muted
\* again for a violation
C35_Witness ==
    /\ ReachedDetection(last)
    /\ Len(last.ret.violations) > 0
    /\ LET u == last.user_id
           before == Len(violations) - Len(last.ret.violations)
       IN  /\ CountInWindow(before, u, "warn") >= 3
           /\ CountInWindow(Len(violations), u, "mute") >= 2
           /\ users[u].is_muted
           /\ users[u].mute_until = now + 300

(***************************************************************************)
(* C36.  A mute (ban) that is applied sets the expiry to now + duration,   *)
(* whatever the expiry was.  A manual mute or ban that succeeds leaves     *)
(* mute_until (ban_until) = now + duration, also when the old expiry was   *)
(* later.  A moderate call that reports rate_limit, whose own mute is the  *)
(* last one applied when the warnings of the day stay below the escalation *)
(* threshold, leaves mute_until = now + the rate limit's duration, also    *)
(* when the spam rule muted the user for longer in the same call.          *)
(***************************************************************************)
C36_LastMuteWins ==
    [][ /\ ( /\ last'.op = "apply_manual_action"
             /\ last'.ret )
           => LET u == last'.user_id
              IN  /\ last'.action = "mute"
                        => /\ users'[u].is_muted
                           /\ users'[u].mute_until = now' + last'.duration
                  /\ last'.action = "ban"
                        => /\ users'[u].is_banned
                           /\ users'[u].ban_until = now' + last'.duration
        /\ ( /\ ReachedDetection(last')
             /\ "rate_limit" \in Range(last'.ret.violations)
             /\ config.rules.rate_limiting.action = "mute"
             /\ Cardinality({i \in DOMAIN violations' :
                                /\ violations'[i].user_id = last'.user_id
                                /\ violations'[i].action_taken = "warn"
                                /\ now' - violations'[i].timestamp < 86400})
                    < config.escalation.warn_to_mute_threshold )
           => users'[last'.user_id].mute_until
                  = now' + config.rules.rate_limiting.duration ]_vars

\* a moderate call reported spam and rate_limit: the spam rule's mute of 300
\* seconds was replaced by the rate limit's of 60
C36_Witness ==
    /\ ReachedDetection(last)
    /\ "spam" \in Range(last.ret.violations)
    /\ "rate_limit" \in Range(last.ret.violations)
    /\ config.rules.spam_detection.duration = 300
    /\ users[last.user_id].is_muted
    /\ users[last.user_id].mute_until = now + 60

\* the mute (ban) of the user has an expiry that the clock has reached
MuteHasExpired(user) ==
    user.is_muted /\ user.mute_until # None /\ now >= user.mute_until

BanHasExpired(user) ==
    user.is_banned /\ user.ban_until # None /\ now >= user.ban_until

(***************************************************************************)
(* C37.  A punishment ends with the clock, not with a sweep.  A moderate   *)
(* call of a user whose mute or ban has an expiry that the clock has       *)
(* reached, and who has no other punishment still running, runs the        *)
(* detection pass although no sweep has cleared the flag.  As long as the  *)
(* flag is not cleared, get_user_status reports is_muted (is_banned) true  *)
(* with the old expiry and get_stats counts the user in active_mutes       *)
(* (active_bans).                                                          *)
(***************************************************************************)
C37_ClockEndsPunishment ==
    [][ /\ ( /\ PluginCall(last')
             /\ last'.user_id \in DOMAIN users
             /\ \/ MuteHasExpired(users[last'.user_id])
                \/ BanHasExpired(users[last'.user_id])
             /\ ~MuteIsActive(users[last'.user_id])
             /\ ~BanIsActive(users[last'.user_id]) )
           => ReachedDetection(last')
        /\ ( /\ last'.op = "get_user_status"
             /\ last'.user_id \in DOMAIN users )
           => LET user == users[last'.user_id]
              IN  /\ MuteHasExpired(user)
                     => /\ last'.ret.is_muted
                        /\ last'.ret.mute_until = << isoformat(user.mute_until) >>
                  /\ BanHasExpired(user)
                     => /\ last'.ret.is_banned
                        /\ last'.ret.ban_until = << isoformat(user.ban_until) >>
        /\ last'.op = "get_stats"
           => /\ last'.ret.active_mutes
                    = Cardinality({u \in DOMAIN users : users[u].is_muted})
              /\ last'.ret.active_mutes
                    >= Cardinality({u \in DOMAIN users : MuteHasExpired(users[u])})
              /\ last'.ret.active_bans
                    = Cardinality({u \in DOMAIN users : users[u].is_banned})
              /\ last'.ret.active_bans
                    >= Cardinality({u \in DOMAIN users : BanHasExpired(users[u])})
      ]_vars

\* a message of a user whose mute and ban have both run out, unswept, ran the
\* detection pass and left the flags set
C37_Witness ==
    /\ ReachedDetection(last)
    /\ MuteHasExpired(users[last.user_id])
    /\ BanHasExpired(users[last.user_id])

\* the status of a user whose mute has run out was read as muted
C37_WitnessStatus ==
    /\ last.op = "get_user_status"
    /\ MuteHasExpired(users[last.user_id])
    /\ last.ret.is_muted

\* the statistics counted a user whose ban has run out
C37_WitnessStats ==
    /\ last.op = "get_stats"
    /\ \E u \in DOMAIN users : BanHasExpired(users[u])
    /\ last.ret.active_bans = 1

(***************************************************************************)
(* C38.  The punishment check and the sweep use the same boundary.  A      *)
(* moderate call is rejected exactly when the user has a ban or a mute     *)
(* with now < until.  A sweep clears the mute (ban) of a user that has an  *)
(* expiry exactly when now >= until, and leaves it as it is otherwise.  So *)
(* after a sweep a user with a mute or ban that has an expiry is one the   *)
(* punishment check still rejects.                                         *)
(***************************************************************************)
C38_SameBoundary ==
    [][ /\ ( PluginCall(last') /\ last'.user_id \in DOMAIN users )
           => LET user == users[last'.user_id]
              IN  Rejected(last')
                  <=> \/ user.is_banned /\ user.ban_until # None
                         /\ now' < user.ban_until
                      \/ user.is_muted /\ user.mute_until # None
                         /\ now' < user.mute_until
        /\ last'.op = "cleanup"
           => \A u \in DOMAIN users :
                 LET user == users[u]
                     swept == users'[u]
                 IN  /\ (user.is_muted /\ user.mute_until # None)
                        => IF now' >= user.mute_until
                           THEN ~swept.is_muted /\ swept.mute_until = None
                           ELSE /\ swept.is_muted
                                /\ swept.mute_until = user.mute_until
                                /\ now' < swept.mute_until
                     /\ (user.is_banned /\ user.ban_until # None)
                        => IF now' >= user.ban_until
                           THEN ~swept.is_banned /\ swept.ban_until = None
                           ELSE /\ swept.is_banned
                                /\ swept.ban_until = user.ban_until
                                /\ now' < swept.ban_until
      ]_vars

\* a message sent at the very instant a mute ran out was let through to the
\* detection pass: the flag is still set, with now = mute_until
C38_Witness ==
    /\ ReachedDetection(last)
    /\ users[last.user_id].is_muted
    /\ users[last.user_id].mute_until = now
    /\ ~BanIsActive(users[last.user_id])

\* a sweep at now has left a ban that runs beyond now
C38_WitnessSweep ==
    /\ last.op = "cleanup"
    /\ \E u \in DOMAIN users : BanIsActive(users[u]) /\ ~users[u].is_muted

\* the record of the user u before a call, the one get_user_status makes for
\* a user without record
RecordOf(u) == IF u \in DOMAIN users THEN users[u] ELSE UserStatus(u)

(***************************************************************************)
(* C39.  No apply_manual_action appends to the violation log, changes a    *)
(* violation_count or changes the record of another user.  A call with a   *)
(* value of ModerationAction and a duration whose expiry datetime can      *)
(* represent returns True and leaves the record of the target user, made   *)
(* if there was none, as it was but for: is_muted = True and mute_until =  *)
(* now + duration after mute; is_banned = True and ban_until = now +       *)
(* duration after ban; nothing after warn, kick and delete_message.        *)
(***************************************************************************)
C39_ManualActionFrame ==
    [][ last'.op = "apply_manual_action"
        => LET u == last'.user_id
               a == last'.action
               d == last'.duration
           IN  /\ violations' = violations
               /\ \A x \in DOMAIN users :
                     /\ x \in DOMAIN users'
                     /\ users'[x].violation_count = users[x].violation_count
                     /\ x # u => users'[x] = users[x]
               /\ DOMAIN users' \subseteq DOMAIN users \cup {u}
               /\ (a \in ModerationAction /\ now' + d <= DatetimeMax)
                  => /\ last'.ret = TRUE
                     /\ u \in DOMAIN users'
                     /\ users'[u] =
                          CASE a = "mute" ->
                                 [RecordOf(u) EXCEPT !.is_muted = TRUE,
                                                     !.mute_until = now' + d]
                            [] a = "ban" ->
                                 [RecordOf(u) EXCEPT !.is_banned = TRUE,
                                                     !.ban_until = now' + d]
                            [] OTHER -> RecordOf(u) ]_vars

\* a moderator muted a user who had violations on record: the count and the
\* log are as they were
C39_Witness ==
    /\ last.op = "apply_manual_action"
    /\ last.action = "mute"
    /\ last.ret = TRUE
    /\ users[last.user_id].is_muted
    /\ users[last.user_id].mute_until = now + last.duration
    /\ users[last.user_id].violation_count = 1
    /\ Len(violations) = 1

\* delete_message made the record of a user and changed nothing else
C39_WitnessDelete ==
    /\ last.op = "apply_manual_action"
    /\ last.action = "delete_message"
    /\ last.ret = TRUE
    /\ users[last.user_id] = UserStatus(last.user_id)

====
